--------------------------- MODULE MCCredentials ---------------------------
(* The lease of a peer, the key pair of a server and the sessions of the    *)
(* web application.  They share no state: their specification is that of    *)
(* each, step by step, and TLC explores one while the others wait.          *)
EXTENDS MCLease, ServerKeys, Session

CONSTANTS
  c1, c2, k0,                      \* two commands that overlap, and a key that is given
  alice, carol, home, tab1, tab2   \* two users of a domain; carol's address is not verified

MCDomainOf == [u \in Users |-> home]

(* A bound: those that wait are where they began.                           *)
LeaseWaits ==
  /\ LeaseInit
  /\ peer.spec.persistent = NoKey /\ peer.spec.action = ResetOnExpire
PairWaits == PairInit
SessionWaits == Init /\ allowed = {home}

LeaseTurn == PairWaits /\ SessionWaits
PairTurn == LeaseWaits /\ SessionWaits
SessionTurn == LeaseWaits /\ PairWaits

CredentialsInit ==
  /\ LeaseInit /\ PairInit /\ Init
  /\ LeaseTurn \/ PairTurn \/ SessionTurn

CredentialsNext ==
  \/ LeaseTurn /\ LeaseNext /\ UNCHANGED pairVars /\ UNCHANGED vars
  \/ PairTurn /\ PairNext /\ UNCHANGED leaseVars /\ UNCHANGED vars
  \/ SessionTurn /\ Next /\ UNCHANGED leaseVars /\ UNCHANGED pairVars

CredentialsSpec ==
  /\ CredentialsInit /\ [][CredentialsNext]_<<leaseVars, pairVars, vars>>
  /\ WF_vars(SessionTurn /\ Tick)
=============================================================================
