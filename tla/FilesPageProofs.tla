-------------------------- MODULE FilesPageProofs ---------------------------
(***************************************************************************)
(* Proofs about WebSession and FilesPage, for any number of browsers,      *)
(* users, requests and restarts.                                           *)
(***************************************************************************)
EXTENDS FilesPage, TLAPS

USE SessionAssumption

\* The initial states satisfy the invariant of the sessions.
LEMMA SessionStarts == SessionInit => SessionInv
  BY DEF SessionInit, SessionInv, SessionTypeOK, Cookie, IssuedInv, OnceInv, EndedInv, LogoutSticks

\* Sending a request keeps the invariant.
LEMMA SendKeeps ==
    ASSUME SessionInv, NEW b \in Browser, SendLogout(b) \/ \E u \in User : SendLogin(b, u)
    PROVE  SessionInv'
<1>1. CASE SendLogout(b)
  <2> USE <1>1 DEF SendLogout, Ask, SessionInv, historyVars
  <2>1. SessionTypeOK'
    BY DEF SessionTypeOK
  <2>2. IssuedInv'
    BY DEF IssuedInv
  <2>3. OnceInv'
    BY DEF OnceInv
  <2>4. EndedInv'
    BY DEF EndedInv, LogoutSticks
  <2> QED
    BY <2>1, <2>2, <2>3, <2>4
<1>2. ASSUME NEW u \in User, SendLogin(b, u) PROVE SessionInv'
  <2> USE <1>2 DEF SendLogin, Ask, SessionInv, historyVars
  <2>1. SessionTypeOK'
    BY DEF SessionTypeOK
  <2>2. IssuedInv' /\ OnceInv' /\ EndedInv'
    BY DEF IssuedInv, OnceInv, EndedInv, LogoutSticks
  <2> QED
    BY <2>1, <2>2
<1> QED
  BY <1>1, <1>2

\* A login keeps the invariant: a token nobody was issued before is new to all.
LEMMA LoginKeeps == ASSUME SessionInv, NEW r \in logins, Login(r) PROVE SessionInv'
<1> DEFINE b == r.browser
           t == NewToken(r.user)
<1>1. /\ b \in Browser /\ t \in Token /\ t # NoToken
      /\ answers' = answers \cup {[browser |-> b, cookie |-> t, ends |-> NoToken]}
      /\ issued' = issued \cup {<<b, t>>}
      /\ twins' = IF \E c \in Browser : <<c, t>> \in issued THEN twins \cup {t} ELSE twins
      /\ logins' \subseteq logins
      /\ UNCHANGED <<now, life, revoked, jar, logouts, asked, loggedOut, left>>
  BY DEF Login, SessionInv, SessionTypeOK, NewToken, Token
<1> HIDE DEF b, t
<1>2. SessionTypeOK'
  <2>1. issued' \subseteq Browser \X Token
    BY <1>1 DEF SessionInv, SessionTypeOK
  <2>2. twins' \subseteq Token
    <3>1. twins \subseteq Token
      BY DEF SessionInv, SessionTypeOK
    <3>2. twins' \subseteq twins \cup {t}
      BY <1>1
    <3> QED
      BY <1>1, <3>1, <3>2
  <2>3. answers' \subseteq [browser : Browser, cookie : Cookie, ends : Cookie]
    BY <1>1 DEF SessionInv, SessionTypeOK, Cookie
  <2> QED
    BY <1>1, <2>1, <2>2, <2>3 DEF SessionInv, SessionTypeOK
<1>3. IssuedInv'
  BY <1>1 DEF SessionInv, IssuedInv
<1>4. OnceInv'
  <2>1. ASSUME NEW p \in issued', NEW q \in issued', p[2] = q[2]
        PROVE  p[1] = q[1] \/ p[2] \in twins'
    <3>1. p \in Browser \X Token /\ q \in Browser \X Token
      BY <1>1, <2>1 DEF SessionInv, SessionTypeOK
    <3> QED
      BY <1>1, <2>1, <3>1 DEF SessionInv, OnceInv
  <2>2. ASSUME NEW a \in answers', a.cookie \in Token \ twins'
        PROVE  /\ jar'[a.browser] # a.cookie
               /\ \A l \in logouts' : l.browser = a.browser => l.cookie # a.cookie
               /\ <<a.browser, a.cookie>> \notin loggedOut'
    <3>1. CASE a \in answers
      BY <1>1, <2>2, <3>1 DEF SessionInv, OnceInv
    <3>2. CASE a = [browser |-> b, cookie |-> t, ends |-> NoToken]
      <4>1. <<b, t>> \notin issued
        BY <1>1, <2>2, <3>2
      <4> QED
        BY <1>1, <3>2, <4>1 DEF SessionInv, IssuedInv
    <3> QED
      BY <1>1, <3>1, <3>2
  <2> QED
    BY <2>1, <2>2 DEF OnceInv
<1>5. EndedInv'
  <2>1. twins \subseteq twins'
    BY <1>1
  <2>2. LogoutSticks'
    BY <1>1, <2>1 DEF SessionInv, EndedInv, LogoutSticks
  <2>3. \A a \in answers' : a.ends # NoToken => a \in answers
    BY <1>1
  <2> QED
    BY <1>1, <2>2, <2>3 DEF SessionInv, EndedInv
<1> QED
  BY <1>2, <1>3, <1>4, <1>5 DEF SessionInv

\* A logout keeps the invariant.
LEMMA LogoutKeeps == ASSUME SessionInv, NEW r \in logouts, Logout(r) PROVE SessionInv'
<1> DEFINE b == r.browser
           c == r.cookie
<1>1. /\ b \in Browser /\ c \in Cookie
      /\ logouts' = logouts \ {r}
      /\ revoked' = revoked \cup ({c} \ {NoToken})
      /\ answers' = answers \cup {[browser |-> b, cookie |-> NoToken, ends |-> c]}
      /\ loggedOut' = IF c = NoToken THEN loggedOut ELSE loggedOut \cup {<<b, c>>}
      /\ UNCHANGED <<now, life, jar, logins, asked, issued, twins, left>>
  BY DEF Logout, SessionInv, SessionTypeOK
<1>2. c # NoToken => <<b, c>> \in issued
  BY DEF SessionInv, IssuedInv
<1>3. \A a \in answers : a.cookie \in Token \ twins /\ a.browser = b => a.cookie # c
  BY DEF SessionInv, OnceInv
<1> HIDE DEF b, c
<1>4. SessionTypeOK'
  BY <1>1 DEF SessionInv, SessionTypeOK, Cookie
<1>5. IssuedInv'
  BY <1>1, <1>2 DEF SessionInv, IssuedInv
<1>6. OnceInv'
  <2>1. ASSUME NEW a \in answers', a.cookie \in Token \ twins
        PROVE  a \in answers /\ <<a.browser, a.cookie>> # <<b, c>>
    BY <1>1, <1>3, <2>1 DEF Token
  <2> QED
    BY <1>1, <2>1 DEF SessionInv, OnceInv
<1>7. EndedInv'
  BY <1>1 DEF SessionInv, EndedInv, LogoutSticks
<1> QED
  BY <1>4, <1>5, <1>6, <1>7 DEF SessionInv

\* An answer that reaches its browser keeps the invariant.
LEMMA AnswerKeeps == ASSUME SessionInv, NEW a \in answers, Answered(a) PROVE SessionInv'
<1> DEFINE b == a.browser
           c == a.cookie
<1>1. /\ b \in Browser /\ c \in Cookie /\ a.ends \in Cookie
      /\ answers' = answers \ {a}
      /\ jar' \in [Browser -> Cookie]
      /\ \A x \in Browser : jar'[x] = IF x = b THEN c ELSE jar[x]
      /\ left' = IF a.ends = NoToken THEN left ELSE left \cup {<<b, a.ends>>}
      /\ UNCHANGED <<now, life, revoked, logins, logouts, asked, issued, twins, loggedOut>>
  BY DEF Answered, SessionInv, SessionTypeOK, requestVars
<1>2. a.ends # NoToken => <<b, a.ends>> \in loggedOut /\ c = NoToken
  BY DEF SessionInv, EndedInv
<1>3. SessionTypeOK'
  BY <1>1, <1>2 DEF SessionInv, SessionTypeOK, Cookie
<1>4. IssuedInv'
  BY <1>1, <1>2 DEF SessionInv, IssuedInv
<1>5. OnceInv'
  <2> SUFFICES ASSUME NEW d \in answers', d.cookie \in Token \ twins
               PROVE  /\ jar'[d.browser] # d.cookie
                      /\ \A l \in logouts : l.browser = d.browser => l.cookie # d.cookie
                      /\ <<d.browser, d.cookie>> \notin loggedOut
    BY <1>1 DEF SessionInv, OnceInv
  <2>1. d \in answers /\ d.browser \in Browser
    BY <1>1 DEF SessionInv, SessionTypeOK
  <2>2. d.browser # b \/ d.cookie # c
    <3> SUFFICES ASSUME d.browser = b, d.cookie = c PROVE d = a
      BY <1>1
    <3>1. c # NoToken
      BY <2>1 DEF Token
    <3>2. a.ends = NoToken /\ d.ends = NoToken
      BY <2>1, <3>1 DEF SessionInv, EndedInv
    <3>3. /\ a \in [browser : Browser, cookie : Cookie, ends : Cookie]
          /\ d \in [browser : Browser, cookie : Cookie, ends : Cookie]
      BY <2>1 DEF SessionInv, SessionTypeOK
    <3> QED
      BY <3>2, <3>3
  <2> QED
    BY <1>1, <2>1, <2>2 DEF SessionInv, OnceInv
<1>6. EndedInv'
  <2>1. ASSUME NEW p \in left', jar'[p[1]] = p[2] PROVE p[2] \in twins
    <3>1. /\ p = <<p[1], p[2]>> /\ p[1] \in Browser /\ p[2] \in Token /\ p[2] # NoToken
          /\ p \in loggedOut
      <4>1. p \in loggedOut
        BY <1>1, <1>4 DEF IssuedInv
      <4>2. p \in Browser \X Token
        BY <4>1 DEF SessionInv, SessionTypeOK
      <4> QED
        BY <4>1, <4>2 DEF Token
    <3>2. CASE p[1] # b
      BY <1>1, <2>1, <3>1, <3>2 DEF SessionInv, EndedInv, LogoutSticks
    <3>3. CASE p[1] = b
      <4>1. c = p[2]
        BY <1>1, <2>1, <3>1, <3>3
      <4> QED
        BY <3>1, <3>3, <4>1 DEF SessionInv, OnceInv
    <3> QED
      BY <3>2, <3>3
  <2>2. LogoutSticks'
    BY <1>1, <2>1 DEF LogoutSticks
  <2> QED
    BY <1>1, <2>2 DEF SessionInv, EndedInv
<1> QED
  BY <1>3, <1>4, <1>5, <1>6 DEF SessionInv

\* Time and restarts keep the invariant.
LEMMA TimeKeeps == ASSUME SessionInv, Tick \/ Restart PROVE SessionInv'
<1>1. CASE Tick
  <2> USE <1>1 DEF Tick, SessionInv, historyVars, requestVars
  <2>1. SessionTypeOK'
    BY DEF SessionTypeOK
  <2>2. IssuedInv' /\ OnceInv' /\ EndedInv'
    BY DEF IssuedInv, OnceInv, EndedInv, LogoutSticks
  <2> QED
    BY <2>1, <2>2
<1>2. CASE Restart
  <2> USE <1>2 DEF Restart, SessionInv, historyVars
  <2>1. SessionTypeOK'
    BY DEF SessionTypeOK
  <2>2. IssuedInv' /\ OnceInv'
    BY DEF IssuedInv, OnceInv
  <2>3. EndedInv'
    BY DEF EndedInv, LogoutSticks
  <2> QED
    BY <2>1, <2>2, <2>3
<1> QED
  BY <1>1, <1>2

\* Every step keeps the invariant.
LEMMA SessionStepKeeps == SessionInv /\ [SessionNext]_sessionVars => SessionInv'
<1> SUFFICES ASSUME SessionInv, [SessionNext]_sessionVars PROVE SessionInv'
  OBVIOUS
<1>1. CASE UNCHANGED sessionVars
  <2> USE <1>1 DEF sessionVars, requestVars, historyVars, SessionInv
  <2>1. SessionTypeOK' /\ IssuedInv'
    BY DEF SessionTypeOK, IssuedInv
  <2>2. OnceInv' /\ EndedInv'
    BY DEF OnceInv, EndedInv, LogoutSticks
  <2> QED
    BY <2>1, <2>2
<1>2. CASE SessionNext
  BY <1>2, SendKeeps, LoginKeeps, LogoutKeeps, AnswerKeeps, TimeKeeps DEF SessionNext, SessionStep
<1> QED
  BY <1>1, <1>2

\* Every behaviour of the sessions keeps the inductive invariant.
THEOREM SessionInvariance == SessionSpec => []SessionInv
<1>1. SessionInit => SessionInv
  BY SessionStarts
<1>2. SessionInv /\ [SessionNext]_sessionVars => SessionInv'
  BY SessionStepKeeps
<1> QED
  BY <1>1, <1>2, PTL DEF SessionSpec

\* A browser is refused only by time or its own logout, unless its token has a twin:
\* security.revoke_token enters the very token of the request, and nothing else.
THEOREM SessionsLast == SessionSpec => []SessionLasts
<1>1. ASSUME SessionInv PROVE SessionLasts
  <2> SUFFICES ASSUME NEW b \in Browser, jar[b] # NoToken, jar[b] \in revoked,
                      jar[b] \notin twins
               PROVE  <<b, jar[b]>> \in loggedOut
    BY DEF SessionLasts, Accepted
  <2>1. PICK c \in Browser : <<c, jar[b]>> \in loggedOut
    BY <1>1 DEF SessionInv, EndedInv
  <2>2. <<c, jar[b]>> \in issued /\ <<b, jar[b]>> \in issued
    BY <1>1, <2>1 DEF SessionInv, IssuedInv
  <2>3. b = c
    BY <1>1, <2>2 DEF SessionInv, OnceInv
  <2> QED
    BY <2>1, <2>3
<1> QED
  BY <1>1, SessionInvariance, PTL

\* Whoever was told of its logout does not hold the token any more, so the restart
\* that makes it good again does not help: however answers are reordered.
THEOREM LogoutsStick == SessionSpec => []LogoutSticks
<1>1. SessionInv => LogoutSticks
  BY DEF SessionInv, EndedInv
<1> QED
  BY <1>1, SessionInvariance, PTL

\* A token that is refused is refused for as long as the process lives.
THEOREM SessionsEndForGood == SessionSpec => EndsForGood
<1>1. ASSUME SessionInv, [SessionNext]_sessionVars
      PROVE  [\A p \in issued : Accepted(p[2])' => Accepted(p[2]) \/ life' # life]_sessionVars
  <2>1. CASE UNCHANGED sessionVars
    BY <2>1
  <2>2. CASE Restart
    BY <1>1, <2>2 DEF Restart, SessionInv, SessionTypeOK
  <2>3. CASE SessionStep
    <3>1. now \in Nat /\ now' \in Nat /\ now <= now' /\ revoked \subseteq revoked'
      BY <1>1, <2>3 DEF SessionStep, SendLogin, SendLogout, Login, Logout, Answered, Tick,
                        SessionInv, SessionTypeOK
    <3>2. \A p \in issued : p[2] \in Token
      BY <1>1 DEF SessionInv, SessionTypeOK
    <3> QED
      BY <3>1, <3>2 DEF Accepted, Token
  <2> QED
    BY <1>1, <2>1, <2>2, <2>3 DEF SessionNext
<1> QED
  BY <1>1, SessionInvariance, PTL DEF SessionSpec, EndsForGood
-----------------------------------------------------------------------------
\* The page and the routes leave the sessions alone: what holds of them holds here.
THEOREM PageKeepsSessions == Spec => SessionSpec
<1>1. Init => SessionInit
  BY DEF Init
<1>2. [Next]_vars => [SessionNext]_sessionVars
  <2> SUFFICES ASSUME [Next]_vars PROVE [SessionNext]_sessionVars
    OBVIOUS
  <2>1. CASE UNCHANGED vars
    BY <2>1 DEF vars
  <2>2. CASE SessionStep
    BY <2>2 DEF SessionNext
  <2>3. CASE RestartAll
    BY <2>3 DEF RestartAll, SessionNext
  <2>4. CASE Page \/ Check \/ Serve
    BY <2>4 DEF Page, OpenPage, ClickDir, ClickFile, CloseViewer, Listed, Read, Check, Serve
  <2> QED
    BY <2>1, <2>2, <2>3, <2>4 DEF Next
<1> QED
  BY <1>1, <1>2, PTL DEF Spec, SessionSpec

\* The initial states of the page satisfy its invariant.
LEMMA PageStarts == Init => PageTypeOK /\ PathIsListed /\ BaseInv /\ OpensWhatWasListed
  BY FilesAssumption DEF Init, PageTypeOK, PathIsListed, BaseInv, OpensWhatWasListed, Nothing

\* A click sends a load that carries what the page shows.
LEMMA LoadIsOne ==
    ASSUME SessionInv, PageTypeOK, clicks < MaxClicks, NEW d \in Dir, NEW in \in {<<>>} \cup Stamp
    PROVE  Load(d, in) \in Loads /\ Load(d, in).at = "sent" /\ Load(d, in).in = in
<1>1. jar[Reader] \in Cookie
  BY FilesAssumption DEF SessionInv, SessionTypeOK
<1>2. clicks \in 0 .. MaxClicks
  BY DEF PageTypeOK
<1> QED
  BY <1>1, <1>2 DEF Load, Loads

\* A step that leaves what is shown alone keeps its types.
LEMMA ShownKeeps ==
    ASSUME PageTypeOK, UNCHANGED <<path, list, viewer, body, clicks>>,
           base' \in {"None", "told", "cwd"}, listing' \subseteq Loads, reading' \subseteq Loads
    PROVE  PageTypeOK'
  BY DEF PageTypeOK

\* What the reader does keeps the invariant of the page.
LEMMA ClicksKeep ==
    ASSUME IInv, OpenPage \/ ClickFile \/ CloseViewer \/ \E d \in Dir : ClickDir(d)
    PROVE  PageTypeOK' /\ PathIsListed' /\ BaseInv' /\ OpensWhatWasListed'
<1> USE DEF IInv, PageInv
<1>a. clicks < MaxClicks => clicks + 1 \in 0 .. MaxClicks
  BY FilesAssumption DEF PageTypeOK
<1>1. CASE OpenPage
  <2>1. Load(Root, <<>>) \in Loads /\ Load(Root, <<>>).at = "sent"
    BY <1>1, LoadIsOne, FilesAssumption DEF OpenPage
  <2>2. /\ listing' = {Load(Root, <<>>)} /\ reading' = {}
        /\ path' = Root /\ list' = Nothing /\ viewer' = Hidden /\ body' = Nothing
        /\ base' = base /\ clicks' \in 0 .. MaxClicks
    BY <1>1, <1>a DEF OpenPage
  <2>3. PageTypeOK'
    BY <2>1, <2>2, FilesAssumption DEF PageTypeOK, Nothing
  <2>4. PathIsListed' /\ BaseInv' /\ OpensWhatWasListed'
    BY <2>1, <2>2 DEF PathIsListed, BaseInv, OpensWhatWasListed, Nothing
  <2> QED
    BY <2>3, <2>4
<1>2. CASE ClickFile
  <2>1. list.dir \in Dir /\ list.from \in Stamp /\ Current(list.from)
    BY <1>2 DEF ClickFile, BaseInv, PageTypeOK, Current
  <2> DEFINE l == Load(list.dir, list.from)
  <2>2. l \in Loads /\ l.at = "sent" /\ l.in = list.from
    BY <1>2, <2>1, LoadIsOne DEF ClickFile
  <2> HIDE DEF l
  <2>3. /\ reading' = reading \cup {l} /\ body' = [what |-> "loading"]
        /\ viewer' = [shown |-> TRUE, opened |-> clicks, alone |-> reading = {}]
        /\ clicks' \in 0 .. MaxClicks
        /\ UNCHANGED <<life, base, listing, path, list>>
    BY <1>2, <1>a DEF ClickFile, sessionVars, l
  <2>4. PageTypeOK'
    <3>1. viewer' \in [shown : {TRUE}, opened : 0 .. MaxClicks, alone : BOOLEAN]
      BY <2>3 DEF PageTypeOK
    <3> QED
      BY <2>2, <2>3, <3>1 DEF PageTypeOK
  <2>5. PathIsListed' /\ BaseInv' /\ OpensWhatWasListed'
    BY <2>1, <2>2, <2>3 DEF PathIsListed, BaseInv, Current, OpensWhatWasListed
  <2> QED
    BY <2>4, <2>5
<1>3. CASE CloseViewer
  <2>1. viewer' = Hidden /\ UNCHANGED <<life, base, listing, reading, path, list, body, clicks>>
    BY <1>3 DEF CloseViewer, sessionVars
  <2> QED
    BY <2>1 DEF PageTypeOK, PathIsListed, BaseInv, Current, OpensWhatWasListed
<1>4. ASSUME NEW d \in Dir, ClickDir(d)
      PROVE  PageTypeOK' /\ PathIsListed' /\ BaseInv' /\ OpensWhatWasListed'
  <2>1. Load(d, <<>>) \in Loads /\ Load(d, <<>>).at = "sent"
    BY <1>4, LoadIsOne DEF ClickDir
  <2>2. /\ listing' = listing \cup {Load(d, <<>>)} /\ clicks' \in 0 .. MaxClicks
        /\ UNCHANGED <<life, base, reading, path, list, viewer, body>>
    BY <1>4, <1>a DEF ClickDir, sessionVars, pageVars
  <2>3. PageTypeOK'
    BY <2>1, <2>2 DEF PageTypeOK
  <2>4. PathIsListed' /\ BaseInv' /\ OpensWhatWasListed'
    BY <2>1, <2>2 DEF PathIsListed, BaseInv, Current, OpensWhatWasListed
  <2> QED
    BY <2>3, <2>4
<1> QED
  BY <1>1, <1>2, <1>3, <1>4

\* Answers that reach the page keep the invariant.
LEMMA AnswersKeep ==
    ASSUME IInv, (\E r \in listing : Listed(r)) \/ \E r \in reading : Read(r)
    PROVE  PageTypeOK' /\ PathIsListed' /\ BaseInv' /\ OpensWhatWasListed'
<1> USE DEF IInv, PageInv
<1>1. ASSUME NEW r \in listing, Listed(r)
      PROVE  PageTypeOK' /\ PathIsListed' /\ BaseInv' /\ OpensWhatWasListed'
  <2>1. listing' \subseteq listing /\ UNCHANGED <<life, base, reading, viewer, body, clicks>>
    BY <1>1 DEF Listed, sessionVars
  <2>2. CASE r.at = "ok"
    <3>1. path' = r.dir /\ list' = [what |-> "list", dir |-> r.dir, from |-> r.read]
      BY <1>1, <2>2 DEF Listed
    <3>2. r.dir \in Dir /\ Current(r.read)
      BY <2>2 DEF PageTypeOK, Loads, BaseInv
    <3>3. PageTypeOK'
      BY <2>1, <3>1, <3>2 DEF PageTypeOK, Current
    <3>4. PathIsListed' /\ BaseInv' /\ OpensWhatWasListed'
      BY <2>1, <3>1, <3>2 DEF PathIsListed, BaseInv, Current, OpensWhatWasListed
    <3> QED
      BY <3>3, <3>4
  <2>3. CASE r.at # "ok"
    <3>1. path' = path /\ list' = [what |-> "error"]
      BY <1>1, <2>3 DEF Listed
    <3>2. PageTypeOK'
      BY <2>1, <3>1 DEF PageTypeOK
    <3>3. PathIsListed' /\ BaseInv' /\ OpensWhatWasListed'
      BY <2>1, <3>1 DEF PathIsListed, BaseInv, Current, OpensWhatWasListed
    <3> QED
      BY <3>2, <3>3
  <2> QED
    BY <2>2, <2>3
<1>2. ASSUME NEW r \in reading, Read(r)
      PROVE  PageTypeOK' /\ PathIsListed' /\ BaseInv' /\ OpensWhatWasListed'
  <2>1. /\ reading' \subseteq reading
        /\ UNCHANGED <<life, base, listing, path, list, viewer, clicks>>
    BY <1>2 DEF Read, sessionVars
  <2>2. \/ r.at = "ok" /\ body' = [what |-> "text", load |-> r]
        \/ r.at = "login" /\ body' = [what |-> "login", load |-> r]
        \/ body' = [what |-> "error"]
    BY <1>2 DEF Read
  <2>3. PageTypeOK'
    <3>1. r \in Loads
      BY DEF PageTypeOK
    <3>2. \/ body' \in [what : {"nothing", "loading", "error"}]
          \/ body' \in [what : {"text", "login"}, load : Loads]
      BY <2>2, <3>1
    <3>3. listing' \subseteq Loads /\ reading' \subseteq Loads
      BY <2>1 DEF PageTypeOK
    <3> QED
      BY <2>1, <3>2, <3>3 DEF PageTypeOK
  <2>4. PathIsListed' /\ BaseInv'
    BY <2>1 DEF PathIsListed, BaseInv, Current
  <2>5. OpensWhatWasListed'
    BY <2>1, <2>2 DEF OpensWhatWasListed, OneTree
  <2> QED
    BY <2>3, <2>4, <2>5
<1> QED
  BY <1>1, <1>2

\* The routes keep the invariant: what they read comes from the directory kept.
LEMMA RoutesKeep ==
    ASSUME IInv, Check \/ Serve
    PROVE  PageTypeOK' /\ PathIsListed' /\ BaseInv' /\ OpensWhatWasListed'
<1> USE DEF IInv, PageInv
<1>1. CASE Check
  <2>1. UNCHANGED <<life, base, path, list, viewer, body, clicks>>
    BY <1>1 DEF Check, sessionVars, pageVars
  <2>2. \A r \in Loads : Checked(r) \in Loads /\ Checked(r).at # "ok" /\ Checked(r).in = r.in
    BY DEF Checked, Loads
  <2>3. /\ \A x \in listing' : x \in listing \/ \E r \in listing : x = Checked(r)
        /\ \A x \in reading' : x \in reading \/ \E r \in reading : x = Checked(r)
    BY <1>1 DEF Check
  <2>4. PageTypeOK'
    <3>1. listing \subseteq Loads /\ reading \subseteq Loads /\ base' \in {"None", "told", "cwd"}
      BY <2>1 DEF PageTypeOK
    <3>2. listing' \subseteq Loads /\ reading' \subseteq Loads
      BY <2>2, <2>3, <3>1
    <3> QED
      BY <2>1, <3>1, <3>2, ShownKeeps
  <2>5. PathIsListed' /\ BaseInv'
    BY <2>1, <2>2, <2>3 DEF PathIsListed, BaseInv, Current, PageTypeOK
  <2>6. OpensWhatWasListed'
    BY <2>1, <2>2, <2>3 DEF OpensWhatWasListed, PageTypeOK
  <2> QED
    BY <2>4, <2>5, <2>6
<1>2. CASE Serve
  <2>1. UNCHANGED <<life, path, list, viewer, body, clicks>>
    BY <1>2 DEF Serve, sessionVars, pageVars
  <2>2. PICK b \in {"told", "cwd"} :
            /\ BaseDir(b)
            /\ \A x \in listing' : x \in listing \/ \E r \in listing : x \in Served(r, b)
            /\ \A x \in reading' : x \in reading \/ \E r \in reading : x \in Served(r, b)
    BY <1>2 DEF Serve
  <2>3. base' = b /\ (base = "None" \/ base = b) /\ life \in Nat
    BY <2>2 DEF BaseDir, SessionInv, SessionTypeOK
  <2>4. \A r \in Loads : \A x \in Served(r, b) :
            x \in Loads /\ x.in = r.in /\ (x.at = "ok" => x.read = <<life, b>>)
    <3>1. <<life, b>> \in Stamp
      BY <2>3 DEF Stamp
    <3>2. ASSUME NEW r \in Loads, NEW x, x = [r EXCEPT !.at = "error"]
          PROVE  x \in Loads /\ x.in = r.in /\ x.at = "error"
      BY <3>2 DEF Loads
    <3>3. ASSUME NEW r \in Loads, NEW x, x = [r EXCEPT !.at = "ok", !.read = <<life, b>>]
          PROVE  x \in Loads /\ x.in = r.in /\ x.read = <<life, b>>
      <4>1. x = [n |-> r.n, dir |-> r.dir, in |-> r.in, cookie |-> r.cookie,
                 at |-> "ok", read |-> <<life, b>>]
        BY <3>3 DEF Loads
      <4> QED
        BY <3>1, <4>1 DEF Loads
    <3> QED
      BY <3>2, <3>3 DEF Served
  <2>5. \A x : Current(x) => Current(x)'
    BY <2>1, <2>3 DEF Current, Stamp
  <2>6. Current(<<life, b>>)'
    BY <2>1, <2>3 DEF Current, Stamp
  <2>7. PageTypeOK'
    <3>1. listing \subseteq Loads /\ reading \subseteq Loads /\ base' \in {"None", "told", "cwd"}
      BY <2>3 DEF PageTypeOK
    <3>2. listing' \subseteq Loads /\ reading' \subseteq Loads
      BY <2>2, <2>4, <3>1
    <3> QED
      BY <2>1, <3>1, <3>2, ShownKeeps
  <2>8. PathIsListed' /\ BaseInv'
    BY <2>1, <2>2, <2>4, <2>5, <2>6 DEF PathIsListed, BaseInv, PageTypeOK
  <2>9. \A r \in reading : \A x \in Served(r, b) : x.at = "ok" => OneTree(x)
    BY <2>3, <2>4 DEF BaseInv, Current, Stamp, OneTree, PageTypeOK
  <2>10. OpensWhatWasListed'
    BY <2>1, <2>2, <2>9 DEF OpensWhatWasListed, OneTree
  <2> QED
    BY <2>7, <2>8, <2>10
<1> QED
  BY <1>1, <1>2

\* A restart keeps the invariant: no stamp is of the new life.
LEMMA RestartKeeps ==
    ASSUME IInv, RestartAll PROVE PageTypeOK' /\ PathIsListed' /\ BaseInv' /\ OpensWhatWasListed'
<1> USE DEF IInv, PageInv
<1>1. /\ base' = "None" /\ life' = life + 1 /\ life \in Nat
      /\ UNCHANGED <<path, list, viewer, body, clicks>>
      /\ listing' = Lost(listing) /\ reading' = Lost(reading)
  BY DEF RestartAll, Restart, pageVars, SessionInv, SessionTypeOK
<1>2. ASSUME NEW r \in Loads, NEW x, x = [r EXCEPT !.at = "lost"]
      PROVE  x \in Loads /\ x.at = "lost" /\ x.in = r.in
  BY <1>2 DEF Loads
<1>3. /\ \A x \in listing' : x \in Loads /\ x.at = "lost"
      /\ \A x \in reading' : x \in Loads /\ x.at = "lost" /\ \E r \in reading : x.in = r.in
  <2>1. listing \subseteq Loads /\ reading \subseteq Loads
    BY DEF PageTypeOK
  <2>2. /\ \A x \in listing' : \E r \in listing : x = [r EXCEPT !.at = "lost"]
        /\ \A x \in reading' : \E r \in reading : x = [r EXCEPT !.at = "lost"]
    BY <1>1 DEF Lost
  <2> QED
    BY <1>2, <2>1, <2>2
<1>4. \A x : Current(x) => Current(x)'
  BY <1>1 DEF Current, Stamp
<1>5. PageTypeOK'
  <2>1. listing' \subseteq Loads /\ reading' \subseteq Loads /\ base' \in {"None", "told", "cwd"}
    BY <1>1, <1>3
  <2> QED
    BY <1>1, <2>1, ShownKeeps
<1>6. PathIsListed' /\ BaseInv'
  BY <1>1, <1>3, <1>4 DEF PathIsListed, BaseInv
<1>7. OpensWhatWasListed'
  BY <1>1, <1>3 DEF OpensWhatWasListed, OneTree
<1> QED
  BY <1>5, <1>6, <1>7

\* Every step keeps what holds of the page and the trees.
LEMMA PageStepKeeps == ASSUME IInv, [Next]_vars PROVE PageInv'
<1>1. CASE filesVars' = filesVars /\ life' = life
  BY <1>1 DEF IInv, PageInv, filesVars, pageVars, PageTypeOK, PathIsListed, BaseInv, Current,
              OpensWhatWasListed, OneTree
<1>2. CASE UNCHANGED vars
  BY <1>1, <1>2 DEF vars, sessionVars
<1>3. CASE SessionStep /\ UNCHANGED filesVars
  <2>1. life' = life
    BY <1>3 DEF SessionStep, SendLogin, SendLogout, Login, Logout, Answered, Tick
  <2> QED
    BY <1>1, <1>3, <2>1
<1> QED
  BY <1>2, <1>3, ClicksKeep, AnswersKeep, RoutesKeep, RestartKeeps DEF Next, Page, PageInv

\* A load that was checked, served or lost is still the load of the same click.
LEMMA LoadsLast ==
    ASSUME IInv, Check \/ Serve \/ RestartAll, NEW x \in reading'
    PROVE  \E r \in reading : /\ r \in Loads /\ x.n = r.n /\ x.cookie = r.cookie
                              /\ x.at = "login" => x = r \/ ~Accepted(r.cookie)
<1>1. reading \subseteq Loads
  BY DEF IInv, PageInv, PageTypeOK
<1>2. ASSUME NEW r \in Loads, NEW at, x = [r EXCEPT !.at = at]
      PROVE  x.n = r.n /\ x.cookie = r.cookie /\ x.at = at
  BY <1>2 DEF Loads
<1>3. ASSUME NEW r \in Loads, NEW s, x = [r EXCEPT !.at = "ok", !.read = s]
      PROVE  x.n = r.n /\ x.cookie = r.cookie /\ x.at = "ok"
  <2>1. x.n = r.n /\ x.cookie = r.cookie
    BY <1>3 DEF Loads
  <2>2. x = [n |-> r.n, dir |-> r.dir, in |-> r.in, cookie |-> r.cookie, at |-> "ok", read |-> s]
    BY <1>3 DEF Loads
  <2> QED
    BY <2>1, <2>2
<1>4. CASE x \in reading
  BY <1>1, <1>4
<1>5. CASE \E r \in reading : x = Checked(r)
  <2>1. PICK r \in reading : x = Checked(r)
    BY <1>5
  <2>2. r \in Loads
    BY <1>1
  <2>3. CASE Accepted(r.cookie)
    BY <1>2, <2>1, <2>2, <2>3 DEF Checked
  <2>4. CASE ~Accepted(r.cookie)
    BY <1>2, <2>1, <2>2, <2>4 DEF Checked
  <2> QED
    BY <2>3, <2>4
<1>6. CASE \E r \in reading, b \in {"told", "cwd"} : x \in Served(r, b)
  BY <1>1, <1>2, <1>3, <1>6 DEF Served
<1>7. CASE \E r \in reading : x = [r EXCEPT !.at = "lost"]
  BY <1>1, <1>2, <1>7
<1>8. CASE Check
  BY <1>4, <1>5, <1>8 DEF Check
<1>9. CASE Serve
  BY <1>4, <1>6, <1>9 DEF Serve
<1>10. CASE RestartAll
  BY <1>7, <1>10 DEF RestartAll, Lost
<1> QED
  BY <1>8, <1>9, <1>10

\* No step puts a file under the title of another one.
LEMMA ViewerKeeps == ASSUME IInv, [Next]_vars PROVE ViewerInv'
<1> USE DEF IInv, ViewerInv, ViewerMatches
<1>1. CASE reading' \subseteq reading /\ UNCHANGED <<viewer, body>>
  BY <1>1
<1>2. CASE OpenPage \/ CloseViewer
  BY <1>2 DEF OpenPage, CloseViewer, Hidden
<1>3. CASE ClickFile
  <2>1. reading' = reading \cup {Load(list.dir, list.from)} /\ body' = [what |-> "loading"]
        /\ viewer' = [shown |-> TRUE, opened |-> clicks, alone |-> reading = {}]
    BY <1>3 DEF ClickFile
  <2>2. Load(list.dir, list.from).n = clicks
    BY DEF Load
  <2> QED
    BY <2>1, <2>2
<1>4. ASSUME NEW r \in reading, Read(r) PROVE ViewerInv'
  <2>1. reading' \subseteq reading /\ viewer' = viewer
        /\ (body'.what = "text" => body'.load = r)
    BY <1>4 DEF Read
  <2> QED
    BY <2>1
<1>5. CASE Check \/ Serve \/ RestartAll
  <2>1. UNCHANGED <<viewer, body>>
    BY <1>5 DEF Check, Serve, RestartAll, pageVars
  <2>2. \A x \in reading' : \E r \in reading : x.n = r.n
    BY <1>5, LoadsLast
  <2> QED
    BY <2>1, <2>2
<1>6. CASE UNCHANGED filesVars \/ (\E d \in Dir : ClickDir(d)) \/ \E r \in listing : Listed(r)
  BY <1>1, <1>6 DEF filesVars, pageVars, ClickDir, Listed
<1> QED
  BY <1>2, <1>3, <1>4, <1>5, <1>6 DEF Next, Page, vars

\* A reason to be refused lasts.
LEMMA ReasonsLast == ASSUME IInv, [Next]_vars, NEW t \in Cookie, Reason(t) PROVE Reason(t)'
<1>1. now \in Nat /\ now' \in Nat /\ now <= now' /\ loggedOut \subseteq loggedOut'
      /\ twins \subseteq twins'
  <2>0. now \in Nat
    BY DEF IInv, SessionInv, SessionTypeOK
  <2>1. CASE UNCHANGED sessionVars
    BY <2>0, <2>1 DEF sessionVars, historyVars
  <2>2. CASE SessionStep
    BY <2>0, <2>2 DEF SessionStep, SendLogin, SendLogout, Ask, Login, Logout, Answered, Tick, historyVars
  <2>3. CASE RestartAll
    BY <2>0, <2>3 DEF RestartAll, Restart, historyVars
  <2>4. CASE Page \/ Check \/ Serve
    BY <2>1, <2>4 DEF Page, OpenPage, ClickDir, ClickFile, CloseViewer, Listed, Read, Check, Serve
  <2> QED
    BY <2>1, <2>2, <2>3, <2>4 DEF Next, vars
<1> QED
  BY <1>1 DEF Reason, Cookie, Token

\* A token of the reader's that is refused has a reason.
LEMMA RefusedForReason ==
    ASSUME SessionInv, NEW t \in Token, <<Reader, t>> \in issued, ~Accepted(t) PROVE Reason(t)
<1> SUFFICES ASSUME t \in revoked, t \notin twins PROVE <<Reader, t>> \in loggedOut
  BY DEF Accepted, Reason, Token, SessionInv, SessionTypeOK
<1>1. PICK c \in Browser : <<c, t>> \in loggedOut
  BY DEF SessionInv, EndedInv
<1>2. c = Reader
  BY <1>1 DEF SessionInv, IssuedInv, OnceInv
<1> QED
  BY <1>1, <1>2

\* No step shows the login page without a reason.
LEMMA ReasonKeeps == ASSUME IInv, [Next]_vars PROVE ReasonInv'
<1> USE DEF IInv, ReasonInv, LoginPageHasReason
<1>a. issued \subseteq issued'
  BY DEF Next, SessionStep, SendLogin, SendLogout, Ask, Login, Logout, Answered, Tick, Restart, RestartAll,
         Page, OpenPage, ClickDir, ClickFile, CloseViewer, Listed, Read, Check, Serve,
         historyVars, sessionVars, vars
<1>b. /\ \A r \in reading : r.cookie \in Cookie
      /\ body.what = "login" => body.load.cookie \in Cookie
  BY DEF PageInv, PageTypeOK, Loads
<1>c. \A t \in Cookie : Reason(t) => Reason(t)'
  BY ReasonsLast
<1>1. CASE reading' \subseteq reading /\ UNCHANGED body
  BY <1>1, <1>a, <1>b, <1>c
<1>2. CASE OpenPage
  BY <1>2 DEF OpenPage, Nothing
<1>3. CASE ClickFile
  <2>1. reading' = reading \cup {Load(list.dir, list.from)} /\ body' = [what |-> "loading"]
    BY <1>3 DEF ClickFile
  <2>2. /\ Load(list.dir, list.from).cookie = jar[Reader]
        /\ Load(list.dir, list.from).at = "sent"
    BY DEF Load
  <2>3. jar[Reader] = NoToken \/ <<Reader, jar[Reader]>> \in issued
    BY FilesAssumption DEF SessionInv, IssuedInv
  <2> QED
    BY <1>a, <1>b, <1>c, <2>1, <2>2, <2>3
<1>4. ASSUME NEW r \in reading, Read(r) PROVE ReasonInv'
  <2>1. reading' \subseteq reading /\ (body'.what = "login" => body'.load = r /\ r.at = "login")
    BY <1>4 DEF Read
  <2> QED
    BY <1>a, <1>b, <1>c, <2>1
<1>5. CASE Check \/ Serve \/ RestartAll
  <2>1. UNCHANGED body
    BY <1>5 DEF Check, Serve, RestartAll, pageVars
  <2>2. ASSUME NEW x \in reading'
        PROVE  /\ x.cookie = NoToken \/ <<Reader, x.cookie>> \in issued'
               /\ x.at = "login" => Reason(x.cookie)'
    <3>1. PICK r \in reading : /\ r \in Loads /\ x.n = r.n /\ x.cookie = r.cookie
                               /\ x.at = "login" => x = r \/ ~Accepted(r.cookie)
      BY <1>5, LoadsLast
    <3>2. r.cookie \in Cookie /\ (r.cookie = NoToken \/ <<Reader, r.cookie>> \in issued)
      BY <1>b
    <3>3. ASSUME ~Accepted(r.cookie) PROVE Reason(r.cookie)
      <4>1. CASE r.cookie = NoToken
        BY <4>1 DEF Reason
      <4>2. CASE r.cookie # NoToken
        <5>1. r.cookie \in Token /\ <<Reader, r.cookie>> \in issued
          BY <3>2, <4>2 DEF Cookie
        <5> QED
          BY <3>3, <5>1, RefusedForReason
      <4> QED
        BY <4>1, <4>2
    <3>4. ASSUME x.at = "login" PROVE Reason(r.cookie)
      BY <3>1, <3>3, <3>4
    <3>5. x.at = "login" => Reason(x.cookie)'
      BY <1>c, <3>1, <3>2, <3>4
    <3>6. x.cookie = NoToken \/ <<Reader, x.cookie>> \in issued'
      BY <1>a, <3>1, <3>2
    <3> QED
      BY <3>5, <3>6
  <2> QED
    BY <1>b, <1>c, <2>1, <2>2
<1>6. CASE UNCHANGED filesVars \/ CloseViewer \/ (\E d \in Dir : ClickDir(d)) \/ \E r \in listing : Listed(r)
  BY <1>1, <1>6 DEF filesVars, pageVars, CloseViewer, ClickDir, Listed
<1> QED
  BY <1>2, <1>3, <1>4, <1>5, <1>6 DEF Next, Page, vars

\* The invariant holds at first.
LEMMA AllStarts == Init => IInv
<1> SUFFICES ASSUME Init PROVE IInv
  OBVIOUS
<1>1. SessionInv /\ PageInv
  BY SessionStarts, PageStarts DEF Init, PageInv
<1>2. ViewerInv /\ ReasonInv
  BY DEF Init, ViewerInv, ViewerMatches, ReasonInv, LoginPageHasReason, Hidden, Nothing
<1> QED
  BY <1>1, <1>2 DEF IInv

\* Every behaviour of the page keeps the inductive invariant.
THEOREM PageInvariance == Spec => []IInv
<1>1. Init => IInv
  BY AllStarts
<1>2. IInv /\ SessionInv' /\ [Next]_vars => IInv'
  BY PageStepKeeps, ViewerKeeps, ReasonKeeps DEF IInv
<1>3. Spec => []SessionInv
  BY PageKeepsSessions, SessionInvariance, PTL
<1> QED
  BY <1>1, <1>2, <1>3, PTL DEF Spec

\* Every variable stays in its type.
THEOREM PageTypesKept == Spec => []TypeOK
<1>1. IInv => TypeOK
  BY DEF IInv, SessionInv, PageInv, TypeOK
<1> QED
  BY <1>1, PageInvariance, PTL

\* The path bar and the list below it are of one directory: loadDirectory shows both
\* in one go, after its last await.
THEOREM PathsListed == Spec => []PathIsListed
<1>1. IInv => PathIsListed
  BY DEF IInv, PageInv
<1> QED
  BY <1>1, PageInvariance, PTL

\* As long as the process lives files are read in the tree they were listed in:
\* secure_path keeps what it found, or fell back to, at its first call.
THEOREM TreesAgree == Spec => []OpensWhatWasListed
<1>1. IInv => OpensWhatWasListed
  BY DEF IInv, PageInv
<1> QED
  BY <1>1, PageInvariance, PTL

\* A file opened while no other was loading is never shown under another one's title.
THEOREM ViewersMatch == Spec => []ViewerMatches
<1>1. IInv => ViewerMatches
  BY DEF IInv, ViewerInv
<1> QED
  BY <1>1, PageInvariance, PTL

\* What the page says of itself is so.
THEOREM PageAlwaysAgrees == Spec => []PageAgrees
<1>1. PathIsListed /\ ViewerMatches => PageAgrees
  BY DEF PageAgrees
<1> QED
  BY PathsListed, ViewersMatch, <1>1, PTL

\* The login page takes the place of a file only when the reader's session had ended.
THEOREM LoginPagesHaveReasons == Spec => []LoginPageHasReason
<1>1. IInv => LoginPageHasReason
  BY DEF IInv, ReasonInv
<1> QED
  BY <1>1, PageInvariance, PTL
=============================================================================
