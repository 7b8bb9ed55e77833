---------------------------- MODULE MCCloakService ----------------------------
(***************************************************************************)
(* CloakService for TLC.  The node registry shares no variable with the     *)
(* escrow operations: each is explored while the other is as deployed.      *)
(***************************************************************************)
EXTENDS CloakService, TLC

\* Accounts, proxies, logics and words are interchangeable.
Symmetry ==
  {a @@ b @@ c @@ d : a \in Permutations(Users), b \in Permutations(Proxies),
                     c \in Permutations(Logics), d \in Permutations(Words)}

NoNodes == isRegistered = [n \in Users |-> FALSE] /\ nodes = [n \in Users |-> NoNode]
NoEscrows ==
  /\ \A p \in Proxies : \E u \in Users, l \in Logics : proxy[p] = Deployed(u, l)
  /\ escrows = [p \in Proxies |-> NoEscrow]
  /\ latest = [p \in Proxies |-> nil] /\ released = {}

EscrowStep == NoNodes /\ (OwnerStep \/ MasterStep \/ TeeStep)
RegistryStep == NoEscrows /\ NetworkStep

ServiceSpec == Init /\ [][EscrowStep \/ RegistryStep]_vars
===============================================================================
