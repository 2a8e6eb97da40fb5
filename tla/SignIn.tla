-------------------------------- MODULE SignIn --------------------------------
(***************************************************************************)
(* Signing in to one account and staying signed in (services/identity-     *)
(* service/src/auth/auth-service.ts, repo/session.repo.ts, token.repo.ts,  *)
(* mfa.repo.ts, user.repo.ts): logins with a password and a code, refresh  *)
(* tokens that rotate, logout, password resets, and an administrator who   *)
(* disables the account or resets its authenticator.  A request reads and  *)
(* writes in steps of its own and may be given up between any two of them. *)
(* A refresh token is the number of its session.                           *)
(***************************************************************************)
EXTENDS Naturals, FiniteSets

CONSTANTS
  Request,     \* what may be under way at a time
  MaxSession,  \* bound: sessions there are
  MaxFactor,   \* bound: authenticators enrolled
  MaxLink,     \* bound: links issued for a reset
  Whole        \* whether a reset that has used its link goes through

Session == 1..MaxSession
Factor  == 1..MaxFactor
Link    == 0..MaxLink

ASSUME SignInAssumption == {MaxSession, MaxFactor, MaxLink} \subseteq Nat /\ Whole \in BOOLEAN

VARIABLES
  password,   \* the number of the password
  status,     \* users.status
  enrolled,   \* users.mfa_enrolled
  required,   \* whether the org requires two-step verification
  factor,     \* mfa_factors
  session,    \* sessions
  reset,      \* the account's password_reset_tokens row, and its link
  request,    \* the requests
  reused      \* history: families a replayed token was seen of

account    == <<password, status, enrolled, required>>
signInVars == <<account, factor, session, reset, request, reused>>

NoSession == [at |-> "none", family |-> 0, proof |-> 0, stale |-> FALSE]
NoRequest == [at |-> "none", proof |-> 0, of |-> 0, stale |-> FALSE]

(* proof: the password its login proved.  stale (history): whether what    *)
(* it was created upon had been revoked meanwhile.                         *)
SignInTypeOK ==
  /\ password \in Nat /\ status \in {"active", "disabled"}
  /\ enrolled \in BOOLEAN /\ required \in BOOLEAN
  /\ factor \in [Factor -> {"none", "pending", "confirmed", "deleted"}]
  /\ session \in [Session -> [at : {"none", "live", "revoked"}, family : 0..MaxSession,
                              proof : Nat, stale : BOOLEAN]]
  /\ reset \in [at : {"none", "open", "used"}, link : Link]
  /\ request \in [Request ->
       [at : {"none", "verified", "enrolling", "verifying", "proved", "rotating", "replayed",
              "resetting", "consumed", "changed"},
        proof : Nat, of : Nat, stale : BOOLEAN]]
  /\ reused \in SUBSET Session

SignInInit ==
  /\ password = 0 /\ status = "active" /\ enrolled = FALSE /\ required \in BOOLEAN
  /\ factor = [f \in Factor |-> "none"]
  /\ session = [s \in Session |-> NoSession]
  /\ reset = [at |-> "none", link |-> 0]
  /\ request = [q \in Request |-> NoRequest]
  /\ reused = {}

Confirmed == {f \in Factor : factor[f] = "confirmed"}

Live == {s \in Session : session[s].at = "live"}

(* The next to be used of a table.                                         *)
Fresh(table, none, i) ==
  /\ i \in DOMAIN table /\ table[i] = none
  /\ \A j \in DOMAIN table : table[j] = none => i <= j

Become(q, r) == request' = [request EXCEPT ![q] = r]

(* The account's sessions are revoked: what is under way is stale.         *)
Overtaken(except) ==
  request' = [r \in Request |-> IF r \in except \/ request[r].at = "none" THEN NoRequest
                                ELSE [request[r] EXCEPT !.stale = TRUE]]

Revokes(which) ==
  session' = [s \in Session |-> IF s \in which /\ session[s].at = "live"
                                THEN [session[s] EXCEPT !.at = "revoked"] ELSE session[s]]

(* insertSession.                                                          *)
Inserts(sessions, s, family, proof, stale) ==
  session' = [sessions EXCEPT ![s] =
                [at |-> "live", family |-> family, proof |-> proof, stale |-> stale]]

(* create: a session in a family of its own.                               *)
Create(q) ==
  \E s \in Session : Fresh(session, NoSession, s) /\ Inserts(session, s, s, request[q].proof, request[q].stale)

(* A request fails, or its process does.                                   *)
GiveUp(q) ==
  /\ request[q].at # "none" /\ (Whole => request[q].at \notin {"consumed", "changed"})
  /\ Become(q, NoRequest)
  /\ UNCHANGED <<account, factor, session, reset, reused>>

-----------------------------------------------------------------------------
(* Logging in. *)

(* The account is active and the password its own.                         *)
Login(q) ==
  /\ request[q].at = "none" /\ status = "active"
  /\ Become(q, [NoRequest EXCEPT !.at = "verified", !.proof = password, !.of = IF enrolled THEN 1 ELSE 0])
  /\ UNCHANGED <<account, factor, session, reset, reused>>

(* What mfaPolicy asks for: nothing, an enrolment, or the authenticator's  *)
(* code.                                                                   *)
Admit(q) ==
  LET hasEnrolled == request[q].of = 1
  IN  /\ request[q].at = "verified"
      /\ \/ /\ ~hasEnrolled /\ ~required
            /\ Create(q) /\ Become(q, NoRequest) /\ UNCHANGED factor
         \/ /\ ~hasEnrolled /\ required
            /\ \E f \in Factor :
                 /\ Fresh(factor, "none", f)
                 /\ factor' = [factor EXCEPT ![f] = "pending"]
                 /\ Become(q, [request[q] EXCEPT !.at = "enrolling", !.of = f])
            /\ UNCHANGED session
         \/ /\ hasEnrolled /\ Confirmed # {}
            /\ Become(q, [request[q] EXCEPT !.at = "verifying", !.of = 0])
            /\ UNCHANGED <<session, factor>>
      /\ UNCHANGED <<account, reset, reused>>

(* confirmMfaEnrollment: factor and account in one transaction.            *)
ConfirmMfaEnrollment(q) ==
  /\ request[q].at = "enrolling" /\ factor[request[q].of] = "pending"
  /\ factor' = [factor EXCEPT ![request[q].of] = "confirmed"]
  /\ enrolled' = TRUE
  /\ Become(q, [request[q] EXCEPT !.at = "proved"])
  /\ UNCHANGED <<password, status, required, session, reset, reused>>

VerifyMfa(q) ==
  /\ request[q].at = "verifying" /\ Confirmed # {}
  /\ Become(q, [request[q] EXCEPT !.at = "proved"])
  /\ UNCHANGED <<account, factor, session, reset, reused>>

SignedIn(q) ==
  /\ request[q].at = "proved"
  /\ Create(q) /\ Become(q, NoRequest)
  /\ UNCHANGED <<account, factor, reset, reused>>

-----------------------------------------------------------------------------
(* Refresh and logout. *)

Refresh(q, s) ==
  /\ request[q].at = "none" /\ session[s].at # "none"
  /\ \/ /\ session[s].at = "revoked"
        /\ Become(q, [NoRequest EXCEPT !.at = "replayed", !.of = s])
     \/ /\ session[s].at = "live" /\ status = "active" /\ (required => enrolled)
        /\ Become(q, [NoRequest EXCEPT !.at = "rotating", !.of = s])
  /\ UNCHANGED <<account, factor, session, reset, reused>>

(* rotate, by the old session's id, revoked by now or not.                 *)
Rotate(q) ==
  LET old == session[request[q].of]
  IN  /\ request[q].at = "rotating"
      /\ \E s \in Session :
           /\ Fresh(session, NoSession, s)
           /\ Inserts([session EXCEPT ![request[q].of].at = "revoked"], s, old.family, old.proof,
                      old.stale \/ request[q].stale \/ old.at # "live")
      /\ Become(q, NoRequest)
      /\ UNCHANGED <<account, factor, reset, reused>>

(* Defective: only the token that was replayed is revoked.                 *)
ReplayedAlone(q) ==
  /\ request[q].at = "replayed"
  /\ Revokes({request[q].of})
  /\ Become(q, NoRequest)
  /\ reused' = reused \cup {session[request[q].of].family}
  /\ UNCHANGED <<account, factor, reset>>

(* A token presented once it was rotated or revoked: revokeFamily.         *)
Replayed(q) ==
  LET family == session[request[q].of].family
  IN  /\ request[q].at = "replayed"
      /\ Revokes({s \in Session : session[s].family = family})
      /\ Become(q, NoRequest)
      /\ reused' = reused \cup {family}
      /\ UNCHANGED <<account, factor, reset>>

Logout(s) ==
  /\ session[s].at = "live"
  /\ Revokes({s})
  /\ UNCHANGED <<account, factor, reset, request, reused>>

-----------------------------------------------------------------------------
(* Password resets. *)

RequestPasswordReset ==
  /\ status = "active" /\ reset.at = "none"
  /\ reset' = [reset EXCEPT !.at = "open"]
  /\ UNCHANGED <<account, factor, session, request, reused>>

(* A mail that is tried again gets a link that takes the other's place.    *)
IssuePasswordResetLink ==
  /\ reset.at = "open" /\ status = "active" /\ reset.link < MaxLink
  /\ reset' = [reset EXCEPT !.link = @ + 1]
  /\ UNCHANGED <<account, factor, session, request, reused>>

(* confirmPasswordReset, with the link it was sent.                        *)
ConfirmPasswordReset(q) ==
  /\ request[q].at = "none" /\ reset.at = "open" /\ reset.link # 0
  /\ Become(q, [NoRequest EXCEPT !.at = "resetting", !.of = reset.link])
  /\ UNCHANGED <<account, factor, session, reset, reused>>

(* consumePasswordReset, once: the row is locked.                          *)
Consume(q) ==
  /\ request[q].at = "resetting"
  /\ IF reset = [at |-> "open", link |-> request[q].of]
     THEN /\ reset' = [reset EXCEPT !.at = "used"]
          /\ Become(q, [request[q] EXCEPT !.at = "consumed"])
     ELSE reset' = reset /\ Become(q, NoRequest)
  /\ UNCHANGED <<account, factor, session, reused>>

SetPassword(q) ==
  /\ request[q].at = "consumed"
  /\ password' = password + 1
  /\ Become(q, [request[q] EXCEPT !.at = "changed"])
  /\ UNCHANGED <<status, enrolled, required, factor, session, reset, reused>>

RevokeAllForUser(q) ==
  /\ request[q].at = "changed"
  /\ Revokes(Session) /\ Overtaken({q})
  /\ UNCHANGED <<account, factor, reset, reused>>

-----------------------------------------------------------------------------
(* The administrator. *)

(* Account and sessions in one transaction.                                *)
Disable ==
  /\ status = "active" /\ status' = "disabled"
  /\ Revokes(Session)
  /\ Overtaken({})
  /\ UNCHANGED <<password, enrolled, required, factor, reset, reused>>

Enable ==
  /\ status = "disabled" /\ status' = "active"
  /\ UNCHANGED <<password, enrolled, required, factor, session, reset, request, reused>>

(* reset of the authenticator, in one transaction.                         *)
ResetMfa ==
  /\ enrolled /\ enrolled' = FALSE
  /\ factor' = [f \in Factor |-> IF factor[f] = "none" THEN "none" ELSE "deleted"]
  /\ Revokes(Session)
  /\ Overtaken({})
  /\ UNCHANGED <<password, status, required, reset, reused>>

SetPolicy ==
  /\ required' = ~required
  /\ UNCHANGED <<password, status, enrolled, factor, session, reset, request, reused>>

-----------------------------------------------------------------------------
RequestStep(q) ==
  \/ GiveUp(q) \/ Login(q) \/ Admit(q) \/ ConfirmMfaEnrollment(q) \/ VerifyMfa(q) \/ SignedIn(q)
  \/ (\E s \in Session : Refresh(q, s)) \/ Rotate(q) \/ Replayed(q)
  \/ ConfirmPasswordReset(q) \/ Consume(q) \/ SetPassword(q) \/ RevokeAllForUser(q)

SignInNext ==
  \/ \E q \in Request : RequestStep(q)
  \/ \E s \in Session : Logout(s)
  \/ RequestPasswordReset \/ IssuePasswordResetLink
  \/ Disable \/ Enable \/ ResetMfa \/ SetPolicy

SignInSpec == SignInInit /\ [][SignInNext]_signInVars

-----------------------------------------------------------------------------
(* Properties.  The sessions that requests under way at a revocation       *)
(* create after it are the exception of the first four (stale): nothing in *)
(* the code keeps them out.                                                *)

(* "Whoever held the old password must not stay signed in" (session.repo   *)
(* .ts:109): but for a reset between its two writes, every live session    *)
(* was begun with the password there is, however often it has been rotated.*)
OldPasswordEnds ==
  (\A q \in Request : request[q].at # "changed") =>
    \A s \in Live : ~session[s].stale => session[s].proof = password

(* "A disabled user must not stay signed in" (user.repo.ts, update), nor   *)
(* come back by a token that was refreshed meanwhile.                      *)
DisabledIsSignedOut ==
  status = "disabled" => \A s \in Live : session[s].stale

(* "The whole chain is presumed compromised" (session.repo.ts:121): a      *)
(* token replayed at any later time, after any number of rotations, leaves *)
(* nothing of its family.                                                  *)
ReplayEndsFamily ==
  \A s \in Live : ~session[s].stale => session[s].family \notin reused

(* A login is one chain: a token and its successor never both work.        *)
OneOfAFamily ==
  \A s, t \in Live :
    session[s].family = session[t].family /\ ~session[s].stale /\ ~session[t].stale => s = t

(* users.mfa_enrolled is kept beside mfa_factors: logins, enrolments and   *)
(* an administrator's reset never leave an account that asks for a code    *)
(* with no factor to check it, or one with a factor that does not ask.     *)
EnrolledHasFactor == enrolled <=> Confirmed # {}

(* A reset's link, mailed again or followed twice at once, sets one        *)
(* password.                                                               *)
LinkWorksOnce == password <= IF reset.at = "used" THEN 1 ELSE 0

(* The same without the exception.                                         *)
DisabledStaysOut == status = "disabled" => Live = {}

(* "The one confirmed factor for a user, if any" (mfa.repo.ts).            *)
OneFactor == Cardinality(Confirmed) <= 1

(* But for what overtakes a revocation, nobody is signed in by a password, *)
(* an account or a chain of tokens that is no longer good; and a token, a  *)
(* link and a second factor work as often as they are meant to.            *)
SessionsAreRight ==
  /\ SignInTypeOK
  /\ OldPasswordEnds /\ DisabledIsSignedOut /\ ReplayEndsFamily
  /\ OneOfAFamily /\ LinkWorksOnce /\ EnrolledHasFactor
=============================================================================
