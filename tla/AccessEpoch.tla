----------------------------- MODULE AccessEpoch -----------------------------
(***************************************************************************)
(* The auth epoch of src/index.ts: getEpoch, bumpEpoch and isEpochValid,   *)
(* composed with the refresh sessions as README.md:276-294 tells hosts to. *)
(*                                                                         *)
(* A request that logs in or refreshes goes on, when its session is        *)
(* stored, to read the user's epoch and sign it into an access token.  One *)
(* that logs a user out everywhere goes on, when the sessions are swept,   *)
(* to bump the epoch.  Only then is it answered.  Access tokens are in no  *)
(* store: what revokes them is the comparison of epochs alone.             *)
(***************************************************************************)
EXTENDS RefreshSession

CONSTANTS BumpClocks,  \* what Date.now() may be where a bump runs
          MaxBumps     \* bound: how often a user's epoch is bumped

ASSUME BumpsAssumption == BumpClocks \subseteq Instants /\ MaxBumps \in Nat

VARIABLES epochs,     \* the store's epoch of each user
          todo,       \* what each request has still to do with the epoch
          minted,     \* the access tokens signed so far
          bumps,      \* history: how often each user's epoch was bumped
          closed      \* history: each user's logins ended by finished requests

epochVars == <<epochs, todo, minted, bumps, closed>>

allVars == <<clock, sessions, held, call, epochs, todo, minted, bumps, closed>>

Nothing == [do |-> "nothing"]

\* `seen' is the number of bumps when the session was stored; `families' are
\* the logins that were swept.
Todo == {Nothing}
    \cup [do : {"mint"}, user : Users, family : Families, seen : Nat]
    \cup [do : {"bump", "bumped"}, user : Users, families : SUBSET Families]

\* An access token: its claims, and two counts of bumps for the properties:
\* when its session was stored, and when its epoch was read.
AccessToken == [user : Users, family : Families, epoch : Instants,
                seen : Nat, bumps : Nat]

-----------------------------------------------------------------------------
(* The port's operations.  The clock of a bump is that of whatever machine *)
(* it runs on, and may be behind the stored epoch.                         *)

NextEpochByClock(stored, now) == now + 1

NextEpochWithoutTick(stored, now) == IF now > stored THEN now ELSE stored

NextEpoch(stored, now) == (IF now > stored THEN now ELSE stored) + 1

IsEpochValid(tokenEpoch, currentEpoch) == tokenEpoch >= currentEpoch

-----------------------------------------------------------------------------
(* The requests.                                                           *)

\* History only: the logins a sweep ends, for `closed'.  The sweep itself is
\* StoreKillUser.
UserFamilies(u) == {sessions[t].familyId : t \in UserRows(sessions, u)}

\* What is left to do once the store has acted.
AfterStore(c) ==
    LET answer == call'[c]
    IN  IF answer.op # "reply" THEN Nothing
        ELSE IF answer.next # Null
        THEN LET row == sessions'[answer.next]
             IN  [do |-> "mint", user |-> row.userId,
                  family |-> row.familyId, seen |-> bumps[row.userId]]
        ELSE IF answer.outcome = "loggedOutEverywhere"
        THEN [do |-> "bump", user |-> call[c].user,
              families |-> UserFamilies(call[c].user)]
        ELSE Nothing

Request(c) == Begin(c) /\ UNCHANGED epochVars

StoreActs(c) ==
    /\ Store(c)
    /\ todo' = [todo EXCEPT ![c] = AfterStore(c)]
    /\ UNCHANGED <<epochs, minted, bumps, closed>>

\* getEpoch, and the signing of the claims.
Mint(c) ==
    /\ todo[c].do = "mint"
    /\ LET u == todo[c].user
       IN  minted' = minted \cup
            {[user |-> u, family |-> todo[c].family, epoch |-> epochs[u],
              seen |-> todo[c].seen, bumps |-> bumps[u]]}
    /\ todo' = [todo EXCEPT ![c] = Nothing]
    /\ UNCHANGED <<vars, epochs, bumps, closed>>

\* bumpEpoch.
Bump(c) ==
    /\ todo[c].do = "bump"
    /\ bumps[todo[c].user] < MaxBumps
    /\ \E now \in BumpClocks :
        epochs' = [epochs EXCEPT
            ![todo[c].user] = NextEpoch(epochs[todo[c].user], now)]
    /\ bumps' = [bumps EXCEPT ![todo[c].user] = @ + 1]
    /\ todo' = [todo EXCEPT ![c].do = "bumped"]
    /\ UNCHANGED <<vars, minted, closed>>

\* The request is answered, its second call done.
Finish(c) ==
    /\ todo[c].do \notin {"mint", "bump"}
    /\ Deliver(c)
    /\ closed' = IF todo[c].do = "bumped"
                 THEN [closed EXCEPT ![todo[c].user] = @ \cup todo[c].families]
                 ELSE closed
    /\ todo' = [todo EXCEPT ![c] = Nothing]
    /\ UNCHANGED <<epochs, minted, bumps>>

\* A request may be lost between its sweep and its bump: the sessions are dead
\* and the access tokens are not.
Lose(c) ==
    /\ Crash(c)
    /\ todo' = [todo EXCEPT ![c] = Nothing]
    /\ UNCHANGED <<epochs, minted, bumps, closed>>

Pass == Tick /\ UNCHANGED epochVars

-----------------------------------------------------------------------------
EpochInit ==
    /\ Init
    /\ epochs = [u \in Users |-> 0]
    /\ todo = [c \in Callers |-> Nothing]
    /\ minted = {}
    /\ bumps = [u \in Users |-> 0]
    /\ closed = [u \in Users |-> {}]

EpochNext ==
    \/ \E c \in Callers :
        \/ Request(c)
        \/ StoreActs(c)
        \/ Mint(c)
        \/ Bump(c)
        \/ Finish(c)
        \/ Lose(c)
    \/ Pass

EpochSpec == EpochInit /\ [][EpochNext]_allVars

-----------------------------------------------------------------------------
(* What the epoch promises.                                                *)

\* The epochs are instants that every bump has moved, by a millisecond at the
\* least, and a request that has a second call to make has an answer waiting.
EpochTypeOK ==
    /\ epochs \in [Users -> Instants]
    /\ todo \in [Callers -> Todo]
    /\ minted \subseteq AccessToken
    /\ bumps \in [Users -> Nat]
    /\ closed \in [Users -> SUBSET Families]
    /\ \A u \in Users : epochs[u] >= bumps[u]
    /\ \A c \in Callers : todo[c] # Nothing => Awaits(c, "reply")

IsValid(m) == IsEpochValid(m.epoch, epochs[m.user])

\* Whatever clocks the bumps read, one behind another or all the same: an
\* access token is valid as long as its user's epoch is not bumped after it was
\* signed, and never again once it is.
ValidUntilTheNextBump ==
    \A m \in minted : IsValid(m) <=> m.bumps = bumps[m.user]

\* Whoever was told that a user is logged out everywhere can rely on it, but for
\* one gap.  Of the logins that were swept, no refresh token works again, and an
\* access token only if its session had been stored before the bump and its
\* epoch was read after it: a refresh that was under way through both calls.
OnlyInFlightSurvive ==
    \A u \in Users : \A f \in closed[u] \cap Generated :
        /\ Dead(f)
        /\ \A m \in minted :
            m.user = u /\ m.family = f /\ IsValid(m) => m.seen < bumps[u]

=============================================================================
