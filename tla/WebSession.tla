----------------------------- MODULE WebSession -----------------------------
(***************************************************************************)
(* Sessions of the dashboard (api/auth.py, core/security.py): a login      *)
(* gives the browser a signed token in a cookie, a logout enters the token *)
(* in the process's set revoked_tokens and deletes the cookie.             *)
(*                                                                         *)
(* A token says who and until when, in whole seconds, and nothing else:    *)
(* two logins of a user in one second are the same token.  revoked_tokens  *)
(* is in memory, the secret is a constant: a restart forgets the first and *)
(* keeps the second.  A browser may have several requests on their way,    *)
(* and their answers come in any order.                                    *)
(***************************************************************************)
EXTENDS Naturals, FiniteSets

CONSTANTS Browser,     \* browsers, each with its cookies
          User,        \* user names
          NoToken,     \* no cookie
          Lifetime,    \* ACCESS_TOKEN_EXPIRE_MINUTES, in ticks
          MaxTime,     \* bound: the clock stops
          MaxAsked,    \* bound: logins and logouts, over all browsers
          MaxRestarts  \* bound: restarts of the web process

ASSUME SessionAssumption == /\ Lifetime \in Nat
                            /\ MaxTime \in Nat
                            /\ MaxAsked \in Nat
                            /\ MaxRestarts \in Nat
                            /\ NoToken \notin [user : User, exp : Nat]

VARIABLES now,       \* the clock, in seconds
          life,      \* restarts so far
          revoked,   \* revoked_tokens
          jar,       \* jar[b]: the cookie access_token of browser b
          logins,    \* POST /auth/login on their way, the password being right
          logouts,   \* GET /auth/logout on their way, with their cookie
          asked,     \* logins and logouts sent so far
          answers,   \* answers that set or delete the cookie, on their way
          issued,    \* history: <<b, t>>, the server answered a login of b with t
          twins,     \* history: tokens issued more than once
          loggedOut, \* history: <<b, t>>, a logout of b carried t
          left       \* history: <<b, t>>, b was told that its logout of t is done

historyVars == <<issued, twins, loggedOut, left>>
requestVars == <<logins, logouts, asked>>
sessionVars == <<now, life, revoked, jar, requestVars, answers, historyVars>>

Token == [user : User, exp : Nat]
Cookie == Token \cup {NoToken}

SessionInit == /\ now = 0 /\ life = 0
               /\ revoked = {}
               /\ jar = [b \in Browser |-> NoToken]
               /\ logins = {} /\ logouts = {} /\ asked = 0 /\ answers = {}
               /\ issued = {} /\ twins = {} /\ loggedOut = {} /\ left = {}
-----------------------------------------------------------------------------
\* get_current_user_from_token knows the user.
Accepted(c) == c # NoToken /\ c \notin revoked /\ now < c.exp

Ask == asked < MaxAsked /\ asked' = asked + 1

SendLogin(b, u) == /\ Ask
                   /\ logins' = logins \cup {[browser |-> b, user |-> u]}
                   /\ UNCHANGED <<now, life, revoked, jar, logouts, answers, historyVars>>

SendLogout(b) == /\ Ask
                 /\ logouts' = logouts \cup {[browser |-> b, cookie |-> jar[b]]}
                 /\ UNCHANGED <<now, life, revoked, jar, logins, answers, historyVars>>

NewToken(u) == [user |-> u, exp |-> now + Lifetime]

\* Mutant of Login: a new login takes its token out of revoked_tokens.
LoginForgives(r) ==
    LET t == NewToken(r.user) IN
    /\ r \in logins
    /\ logins' = logins \ {r}
    /\ answers' = answers \cup {[browser |-> r.browser, cookie |-> t, ends |-> NoToken]}
    /\ issued' = issued \cup {<<r.browser, t>>}
    /\ twins' = IF \E b \in Browser : <<b, t>> \in issued THEN twins \cup {t} ELSE twins
    /\ revoked' = revoked \ {t}
    /\ UNCHANGED <<now, life, jar, logouts, asked, loggedOut, left>>

\* POST /auth/login: the answer sets the cookie.
Login(r) ==
    LET t == NewToken(r.user) IN
    /\ r \in logins
    /\ logins' = logins \ {r}
    /\ answers' = answers \cup {[browser |-> r.browser, cookie |-> t, ends |-> NoToken]}
    /\ issued' = issued \cup {<<r.browser, t>>}
    /\ twins' = IF \E b \in Browser : <<b, t>> \in issued THEN twins \cup {t} ELSE twins
    /\ UNCHANGED <<now, life, revoked, jar, logouts, asked, loggedOut, left>>

\* Mutant of Logout: it ends all sessions of the user.
LogoutEverywhere(r) ==
    /\ r \in logouts
    /\ logouts' = logouts \ {r}
    /\ revoked' = revoked \cup {p[2] : p \in {q \in issued : /\ r.cookie # NoToken
                                                             /\ q[2].user = r.cookie.user}}
    /\ answers' = answers \cup {[browser |-> r.browser, cookie |-> NoToken, ends |-> r.cookie]}
    /\ loggedOut' = loggedOut \cup ({<<r.browser, r.cookie>>} \cap (Browser \X Token))
    /\ UNCHANGED <<now, life, jar, logins, asked, issued, twins, left>>

\* Mutant of Logout: the answer does not delete the cookie.
LogoutKeepsCookie(r) ==
    /\ r \in logouts
    /\ logouts' = logouts \ {r}
    /\ revoked' = revoked \cup ({r.cookie} \ {NoToken})
    /\ answers' = answers \cup {[browser |-> r.browser, cookie |-> r.cookie, ends |-> r.cookie]}
    /\ loggedOut' = loggedOut \cup ({<<r.browser, r.cookie>>} \cap (Browser \X Token))
    /\ UNCHANGED <<now, life, jar, logins, asked, issued, twins, left>>

\* GET /auth/logout, with or without a cookie: the answer deletes it.
Logout(r) ==
    /\ r \in logouts
    /\ logouts' = logouts \ {r}
    /\ revoked' = revoked \cup ({r.cookie} \ {NoToken})
    /\ answers' = answers \cup {[browser |-> r.browser, cookie |-> NoToken, ends |-> r.cookie]}
    /\ loggedOut' = IF r.cookie = NoToken THEN loggedOut
                    ELSE loggedOut \cup {<<r.browser, r.cookie>>}
    /\ UNCHANGED <<now, life, jar, logins, asked, issued, twins, left>>

\* The browser gets an answer and does to its cookie what the answer says.
Answered(a) ==
    /\ a \in answers
    /\ answers' = answers \ {a}
    /\ jar' = [jar EXCEPT ![a.browser] = a.cookie]
    /\ left' = IF a.ends = NoToken THEN left ELSE left \cup {<<a.browser, a.ends>>}
    /\ UNCHANGED <<now, life, revoked, requestVars, issued, twins, loggedOut>>

Tick == /\ now < MaxTime
        /\ now' = now + 1
        /\ UNCHANGED <<life, revoked, jar, requestVars, answers, historyVars>>

\* The process ends and a new one starts. What was on its way to it is lost, and
\* any part of what was on its way back.
Restart == /\ life < MaxRestarts
           /\ life' = life + 1
           /\ revoked' = {}
           /\ logins' = {} /\ logouts' = {}
           /\ answers' \in SUBSET answers
           /\ UNCHANGED <<now, jar, asked, historyVars>>

SessionStep == \/ \E b \in Browser : SendLogout(b) \/ \E u \in User : SendLogin(b, u)
               \/ \E r \in logins : Login(r)
               \/ \E r \in logouts : Logout(r)
               \/ \E a \in answers : Answered(a)
               \/ Tick

SessionNext == SessionStep \/ Restart

SessionSpec == SessionInit /\ [][SessionNext]_sessionVars
-----------------------------------------------------------------------------
(* Properties.                                                             *)

SessionTypeOK ==
    /\ now \in Nat /\ life \in Nat /\ asked \in Nat
    /\ revoked \subseteq Token
    /\ jar \in [Browser -> Cookie]
    /\ logins \subseteq [browser : Browser, user : User]
    /\ logouts \subseteq [browser : Browser, cookie : Cookie]
    /\ answers \subseteq [browser : Browser, cookie : Cookie, ends : Cookie]
    /\ issued \subseteq Browser \X Token
    /\ twins \subseteq Token
    /\ loggedOut \subseteq Browser \X Token
    /\ left \subseteq Browser \X Token

\* A browser logged in is refused only when its token has expired or by its own
\* logout, whoever else logs out and however often the process starts anew: unless
\* the same user logged in twice within one second, which is one token.
SessionLasts == \A b \in Browser :
    LET t == jar[b] IN
    t # NoToken /\ now < t.exp /\ ~Accepted(t) => <<b, t>> \in loggedOut \/ t \in twins

\* A restart makes revoked tokens good again, but no browser that was told of its
\* logout still holds its token (a twin of it, perhaps): not although answers to
\* other logins and logouts of it come in any order.
LogoutSticks == \A p \in left : jar[p[1]] = p[2] => p[2] \in twins

\* A session that has ended is not taken up again while the process lives.
EndsForGood ==
    [][\A p \in issued : Accepted(p[2])' => Accepted(p[2]) \/ life' # life]_sessionVars

\* Where tokens come from: who holds, sends, is sent or has given up a token has
\* been issued it.
IssuedInv ==
    /\ \A b \in Browser : jar[b] # NoToken => <<b, jar[b]>> \in issued
    /\ \A r \in logouts : r.cookie # NoToken => <<r.browser, r.cookie>> \in issued
    /\ \A a \in answers : a.cookie # NoToken => <<a.browser, a.cookie>> \in issued
    /\ loggedOut \subseteq issued
    /\ left \subseteq loggedOut

\* A token that was not issued twice has one browser, and reaches it once.
OnceInv ==
    /\ \A p, q \in issued : p[2] = q[2] => p[1] = q[1] \/ p[2] \in twins
    /\ \A a \in answers : a.cookie \in Token \ twins =>
           /\ jar[a.browser] # a.cookie
           /\ \A r \in logouts : r.browser = a.browser => r.cookie # a.cookie
           /\ <<a.browser, a.cookie>> \notin loggedOut

\* What is revoked was logged out by some browser; what is left is not held.
EndedInv ==
    /\ \A t \in revoked : \E b \in Browser : <<b, t>> \in loggedOut
    /\ \A a \in answers : a.ends # NoToken => <<a.browser, a.ends>> \in loggedOut
    /\ \A a \in answers : a.ends # NoToken => a.cookie = NoToken
    /\ LogoutSticks

\* The inductive invariant.
SessionInv == SessionTypeOK /\ IssuedInv /\ OnceInv /\ EndedInv
=============================================================================
