------------------------------ MODULE Accounts ------------------------------
(***************************************************************************)
(* Registration and login (pkg/auth/auth.go, models/auth.go,                *)
(* service/auth/auth.go): the user, the auth row and the profile that one   *)
(* registration inserts, and the user that a token names.                   *)
(*                                                                          *)
(* A login answers with the id of the auth row, never with its uid: the     *)
(* token names the user only as long as the two tables count alike.         *)
(***************************************************************************)
EXTENDS Requests, Sequences

CONSTANTS
    Emails,   \* the accounts that contain an "@"
    Phones    \* the other ones

ASSUME AccountsAssumption == Emails \cap Phones = {} /\ None \notin Emails \cup Phones

VARIABLES
    users,       \* the account of each users row, in the order of their ids
    auth,        \* the auth rows
    lastAuth,    \* the last id the database gave to an auth row
    profiles,    \* the users that have a profile
    expired,     \* the accounts whose auth row is older than three days
    tokens       \* the tokens given so far: the account and the user they name

accounts == <<users, auth, lastAuth, profiles, expired, tokens>>

-----------------------------------------------------------------------------
AccountsInit ==
    /\ users = <<>>
    /\ auth = {}
    /\ lastAuth = 0
    /\ profiles = {}
    /\ expired = {}
    /\ tokens = {}

RowOf(a) == {row \in auth : row.account = a}

\* An expired account does not count as existing.
IsUserAuthExist(a) == RowOf(a) # {} /\ a \notin expired

\* The columns email and phone are unique, and the one that is not given is
\* inserted as the empty string.
Conflicts(a) ==
    \E row \in auth : {row.account, a} \subseteq Emails \/ {row.account, a} \subseteq Phones

-----------------------------------------------------------------------------
\* Nobody is logged in: two registrations at once overlap.
Register(w, a) ==
    /\ ~ IsUserAuthExist(a)
    /\ Begins(w, None, "Register", a, "InsertUser", None)
    /\ UNCHANGED accounts

InsertUser(w) ==
    /\ worker[w].pc = "InsertUser"
    /\ users' = Append(users, worker[w].on)
    /\ GoesWith(w, "InsertAuth", Len(users) + 1)
    /\ UNCHANGED <<auth, lastAuth, profiles, expired, tokens>>

\* Mutant of Uid: the auth row takes the id of the last users row there is.
LastUser(w) == Len(users)

\* Mutant of Uid: the id that a failed insertion leaves.
NoId(w) == 0

Uid(w) == worker[w].got

\* An insertion that conflicts takes an id from the counter all the same.
InsertAuth(w) ==
    LET a == worker[w].on
        row == [id |-> lastAuth + 1, uid |-> Uid(w), account |-> a]
    IN  /\ worker[w].pc = "InsertAuth"
        /\ lastAuth' = lastAuth + 1
        /\ IF Conflicts(a) THEN Ends(w) /\ UNCHANGED auth
           ELSE Goes(w, "InsertProfile") /\ auth' = auth \cup {row}
        /\ UNCHANGED <<users, profiles, expired, tokens>>

InsertProfile(w) ==
    /\ worker[w].pc = "InsertProfile"
    /\ profiles' = profiles \cup {Uid(w)}
    /\ Ends(w)
    /\ UNCHANGED <<users, auth, lastAuth, expired, tokens>>

\* No token is made for an account that has no email.
Login(a) ==
    /\ a \in Emails
    /\ Serves
    /\ \E row \in RowOf(a) : tokens' = tokens \cup {[account |-> a, user |-> row.id]}
    /\ UNCHANGED <<users, auth, lastAuth, profiles, expired>>

\* The id in the token is compared with the id a login would answer with.
RefreshToken(t) ==
    /\ \E row \in RowOf(t.account) : row.id = t.user
    /\ Serves
    /\ UNCHANGED accounts

Expire(a) ==
    /\ RowOf(a) # {}
    /\ expired' = expired \cup {a}
    /\ UNCHANGED <<users, auth, lastAuth, profiles, tokens>>
    /\ UNCHANGED requestVars

-----------------------------------------------------------------------------
AccountsStep(w) ==
    \/ InsertUser(w) \/ InsertAuth(w) \/ InsertProfile(w)
    \/ CutOff(w) /\ UNCHANGED accounts

AccountsNext ==
    \/ \E w \in Workers : AccountsStep(w)
    \/ \E w \in Workers, a \in Emails \cup Phones : Register(w, a)
    \/ \E a \in Emails \cup Phones : Login(a) \/ Expire(a)
    \/ \E t \in tokens : RefreshToken(t)

AccountsSpec ==
    RequestsInit /\ AccountsInit /\ [][AccountsNext]_<<requestVars, accounts>>

-----------------------------------------------------------------------------
(* Properties.                                                             *)

AccountsTypeOK ==
    /\ users \in Seq(Emails \cup Phones)
    /\ \A row \in auth : row.id \in 1 .. lastAuth /\ row.uid \in DOMAIN users
    /\ lastAuth \in Nat
    /\ profiles \subseteq DOMAIN users
    /\ expired \subseteq Emails \cup Phones
    /\ \A t \in tokens : t.account \in Emails /\ t.user \in 1 .. lastAuth

\* While no two registrations overlap and no call of one fails, a token names
\* the user that registered its account, refused registrations included; the
\* auth row points at that user in any case, and there is one for each kind of
\* account at most.
TokenNamesTheUser ==
    /\ \A row \in auth : users[row.uid] = row.account
    /\ \A row \in auth, other \in auth :
          (row.account \in Emails <=> other.account \in Emails) => row = other
    /\ Undisturbed =>
          \A t \in tokens : t.user \in DOMAIN users /\ users[t.user] = t.account
=============================================================================
