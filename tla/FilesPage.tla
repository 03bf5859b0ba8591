----------------------------- MODULE FilesPage ------------------------------
(***************************************************************************)
(* The file browser of the dashboard: the routes of api/files.py, which    *)
(* remember the base directory they were told of once, and the page        *)
(* templates/files.html in the hands of one reader, whose session may end  *)
(* at any time: WebSession.                                                *)
(*                                                                         *)
(* Paths and files are abstracted to the directory they are in; a reader   *)
(* opens a file of the directory he sees.  Every answer notes the life of  *)
(* the process and the base directory that gave it.                        *)
(***************************************************************************)
EXTENDS WebSession

CONSTANTS Reader,    \* the browser that has the page open
          Dir,       \* directories below the base directory
          Root,      \* the one the page opens with
          MaxClicks  \* bound: directories and files opened

ASSUME FilesAssumption == Reader \in Browser /\ Root \in Dir /\ MaxClicks \in Nat

VARIABLES base,    \* BASE_DIR: None, the one asked for ("told") or Path.cwd()
          listing, \* the loads of loadDirectory under way, at most one per click
          reading, \* the loads of openTextViewer under way
          path,    \* current-path
          list,    \* what file-list shows
          viewer,  \* the text viewer: for which load it was opened, if it is shown,
                   \* and (history) whether no other was under way then
          body,    \* what text-viewer-body shows
          clicks   \* loads asked for so far, which number them

pageVars == <<path, list, viewer, body>>
filesVars == <<base, listing, reading, pageVars, clicks>>
vars == <<sessionVars, filesVars>>

\* A load: its number, the directory, the listing it was clicked in, the cookie
\* it carries, and how far it is: "sent"; "let in", the session was checked in a
\* thread; or its answer is on its way: "error", "login" (the login page, to which
\* fetch follows the redirect) or "ok" with what was read.
Load(d, in) == [n |-> clicks, dir |-> d, in |-> in, cookie |-> jar[Reader],
                at |-> "sent", read |-> <<>>]

Nothing == [what |-> "nothing"]
Hidden == [shown |-> FALSE]

Init == /\ SessionInit
        /\ base = "None"
        /\ listing = {} /\ reading = {}
        /\ path = Root /\ list = Nothing
        /\ viewer = Hidden /\ body = Nothing
        /\ clicks = 0
-----------------------------------------------------------------------------
(* The page.                                                               *)

\* The page is opened, or opened anew, by someone logged in, and lists the root.
OpenPage == /\ clicks < MaxClicks
            /\ Accepted(jar[Reader])
            /\ clicks' = clicks + 1
            /\ listing' = {Load(Root, <<>>)}
            /\ reading' = {}
            /\ path' = Root /\ list' = Nothing
            /\ viewer' = Hidden /\ body' = Nothing
            /\ UNCHANGED <<sessionVars, base>>

\* Mutant of ClickDir: the path is shown when the directory is clicked.
ClickDirShowsPath(d) ==
    /\ clicks < MaxClicks
    /\ list.what = "list" /\ d # list.dir
    /\ ~viewer.shown
    /\ clicks' = clicks + 1
    /\ listing' = listing \cup {Load(d, <<>>)}
    /\ path' = d
    /\ UNCHANGED <<sessionVars, base, reading, list, viewer, body>>

\* A directory of the list, or "..", is clicked; others may be loading still.
ClickDir(d) == /\ clicks < MaxClicks
               /\ list.what = "list" /\ d # list.dir
               /\ ~viewer.shown
               /\ clicks' = clicks + 1
               /\ listing' = listing \cup {Load(d, <<>>)}
               /\ UNCHANGED <<sessionVars, base, reading, pageVars>>

\* Mutant of ClickFile: the viewer opens with what it showed last.
ClickFileKeepsBody ==
    /\ clicks < MaxClicks
    /\ list.what = "list"
    /\ ~viewer.shown
    /\ clicks' = clicks + 1
    /\ viewer' = [shown |-> TRUE, opened |-> clicks, alone |-> reading = {}]
    /\ reading' = reading \cup {Load(list.dir, list.from)}
    /\ UNCHANGED <<sessionVars, base, listing, path, list, body>>

\* A file of the list is clicked; the viewer covers the list until it is closed.
ClickFile == /\ clicks < MaxClicks
             /\ list.what = "list"
             /\ ~viewer.shown
             /\ clicks' = clicks + 1
             /\ viewer' = [shown |-> TRUE, opened |-> clicks, alone |-> reading = {}]
             /\ body' = [what |-> "loading"]
             /\ reading' = reading \cup {Load(list.dir, list.from)}
             /\ UNCHANGED <<sessionVars, base, listing, path, list>>

CloseViewer == /\ viewer.shown
               /\ viewer' = Hidden
               /\ UNCHANGED <<sessionVars, base, listing, reading, path, list, body, clicks>>

\* loadDirectory goes on: list and path are shown together; an answer that is no
\* list, the login page included, is an error that leaves the path.
Listed(r) == /\ r.at \in {"ok", "error", "login", "lost"}
             /\ listing' = listing \ {r}
             /\ IF r.at = "ok"
                THEN /\ path' = r.dir
                     /\ list' = [what |-> "list", dir |-> r.dir, from |-> r.read]
                ELSE list' = [what |-> "error"] /\ UNCHANGED path
             /\ UNCHANGED <<sessionVars, base, reading, viewer, body, clicks>>

\* openTextViewer goes on: the body is what came, whichever title is shown by now;
\* the login page is a text like any other.
Read(r) == /\ r.at \in {"ok", "error", "login", "lost"}
           /\ reading' = reading \ {r}
           /\ body' = CASE r.at = "ok" -> [what |-> "text", load |-> r]
                        [] r.at = "login" -> [what |-> "login", load |-> r]
                        [] OTHER -> [what |-> "error"]
           /\ UNCHANGED <<sessionVars, base, listing, path, list, viewer, clicks>>
-----------------------------------------------------------------------------
(* The routes.                                                             *)

\* The dependency get_current_user, before the route and in a thread of its own.
Checked(r) == [r EXCEPT !.at = IF Accepted(r.cookie) THEN "let in" ELSE "login"]

Check == /\ \/ \E r \in listing : /\ r.at = "sent"
                                  /\ listing' = (listing \ {r}) \cup {Checked(r)}
                                  /\ UNCHANGED reading
            \/ \E r \in reading : /\ r.at = "sent"
                                  /\ reading' = (reading \ {r}) \cup {Checked(r)}
                                  /\ UNCHANGED listing
         /\ UNCHANGED <<sessionVars, base, pageVars, clicks>>

\* Mutant of BaseDir: the fallback is not kept.
BaseDirAsksAgain(b) == IF base = "told" THEN b = base /\ UNCHANGED base
                       ELSE b \in {"told", "cwd"} /\ base' = IF b = "told" THEN b ELSE base

\* secure_path: BASE_DIR is asked for when it is not known, and kept, the fallback too.
BaseDir(b) == IF base # "None" THEN b = base /\ UNCHANGED base
              ELSE b \in {"told", "cwd"} /\ base' = b

\* The route answers: with an error (no such directory or file, too large, not
\* readable), or with what it read below the base directory.
Served(r, b) == {[r EXCEPT !.at = "error"],
                 [r EXCEPT !.at = "ok", !.read = <<life, b>>]}

Serve == /\ \E b \in {"told", "cwd"} :
               /\ BaseDir(b)
               /\ \/ \E r \in listing : /\ r.at = "let in"
                                        /\ \E a \in Served(r, b) : listing' = (listing \ {r}) \cup {a}
                                        /\ UNCHANGED reading
                  \/ \E r \in reading : /\ r.at = "let in"
                                        /\ \E a \in Served(r, b) : reading' = (reading \ {r}) \cup {a}
                                        /\ UNCHANGED listing
         /\ UNCHANGED <<sessionVars, pageVars, clicks>>

\* What is on its way when the process ends is lost: fetch rejects.
Lost(loads) == {[r EXCEPT !.at = "lost"] : r \in loads}

RestartAll == /\ Restart
              /\ base' = "None"
              /\ listing' = Lost(listing) /\ reading' = Lost(reading)
              /\ UNCHANGED <<pageVars, clicks>>
-----------------------------------------------------------------------------
Page == \/ OpenPage \/ ClickFile \/ CloseViewer
        \/ \E d \in Dir : ClickDir(d)
        \/ \E r \in listing : Listed(r)
        \/ \E r \in reading : Read(r)

Next == \/ SessionStep /\ UNCHANGED filesVars
        \/ Page \/ Check \/ Serve \/ RestartAll

Spec == Init /\ [][Next]_vars
-----------------------------------------------------------------------------
(* Properties.                                                             *)

\* The life of the process and the base directory an answer came from.
Stamp == Nat \X {"told", "cwd"}

Loads == [n : 0 .. MaxClicks, dir : Dir, in : {<<>>} \cup Stamp, cookie : Cookie,
          at : {"sent", "let in", "error", "login", "ok", "lost"}, read : {<<>>} \cup Stamp]

PageTypeOK == /\ base \in {"None", "told", "cwd"}
              /\ listing \subseteq Loads /\ reading \subseteq Loads
              /\ path \in Dir
              /\ \/ list \in [what : {"nothing", "error"}]
                 \/ list \in [what : {"list"}, dir : Dir, from : Stamp]
              /\ \/ viewer = Hidden
                 \/ viewer \in [shown : {TRUE}, opened : 0 .. MaxClicks, alone : BOOLEAN]
              /\ \/ body \in [what : {"nothing", "loading", "error"}]
                 \/ body \in [what : {"text", "login"}, load : Loads]
              /\ clicks \in 0 .. MaxClicks

TypeOK == SessionTypeOK /\ PageTypeOK

\* The path bar names the directory that is listed below it, in whatever order the
\* answers to several clicks come and whichever of them fail.
PathIsListed == list.what = "list" => path = list.dir

\* A file is read in the tree it was listed in: as long as the process lives all
\* routes use one base directory, also when the bridge first failed to name it.
OneTree(r) == r.read[1] = r.in[1] => r.read[2] = r.in[2]

OpensWhatWasListed == /\ \A r \in reading : r.at = "ok" => OneTree(r)
                      /\ body.what = "text" => OneTree(body.load)

\* Under a title the viewer shows the file it was opened for and no earlier one,
\* unless a load was still under way then: that one's answer may come last.
ViewerMatches ==
    viewer.shown /\ viewer.alone /\ body.what = "text" => body.load.n = viewer.opened

\* What the page says of itself is so: the path bar of the list, the viewer's title
\* of its text.
PageAgrees == PathIsListed /\ ViewerMatches

Reason(t) == \/ t = NoToken
             \/ t.exp <= now
             \/ <<Reader, t>> \in loggedOut
             \/ t \in twins

\* The login page is shown in place of a file only when the session had ended: by
\* time, or by the reader's own logout (or that of a twin of his token).
LoginPageHasReason == body.what = "login" => Reason(body.load.cookie)

\* Why: what came from this life of the process came from the directory it keeps.
Current(x) == /\ x \in Stamp
              /\ x[1] <= life
              /\ x[1] = life => x[2] = base

BaseInv == /\ list.what = "list" => Current(list.from)
           /\ \A r \in listing : r.at = "ok" => Current(r.read)
           /\ \A r \in reading : Current(r.in)

\* Why: no load is under way beside the one the viewer was opened for.
ViewerInv == /\ ViewerMatches
             /\ viewer.shown /\ viewer.alone => \A r \in reading : r.n = viewer.opened

\* Why: a load carries a token of the reader's own, and was refused for a reason.
ReasonInv == /\ LoginPageHasReason
             /\ \A r \in reading : /\ r.cookie = NoToken \/ <<Reader, r.cookie>> \in issued
                                   /\ r.at = "login" => Reason(r.cookie)

PageInv == PageTypeOK /\ PathIsListed /\ BaseInv /\ OpensWhatWasListed

\* The inductive invariant.
IInv == SessionInv /\ PageInv /\ ViewerInv /\ ReasonInv
=============================================================================
