------------------------------- MODULE AuditLog -------------------------------
(***************************************************************************)
(* What the audit trail promises, without transactions, locks, hashes or   *)
(* retries: one append-only log per chain, written in the same atomic step *)
(* as the data it describes (README, "Transactional audit log").           *)
(***************************************************************************)
EXTENDS Naturals

CONSTANTS Entities, Chains, ChainOf

VARIABLES
  log,      \* entries [chain, position, entity, version]
  version   \* how many mutations each entity has seen

vars == << log, version >>

Init ==
  /\ log = {}
  /\ version = [ e \in Entities |-> 0 ]

Fresh == log' \ log

(* One atomic step mutates any number of entities and appends exactly the  *)
(* entries of those mutations, each to the chain of its entity, after all  *)
(* earlier entries of the chain and in the order of the mutations.         *)
Append ==
  /\ log \subseteq log'
  /\ \A x \in Fresh :
       /\ x.entity \in Entities
       /\ x.chain = ChainOf[x.entity]
       /\ x.position > 0
       /\ version[x.entity] < x.version /\ x.version <= version'[x.entity]
       /\ \A y \in log : y.chain = x.chain => y.position < x.position
       /\ x.position > 1 =>
            \E y \in log' : y.chain = x.chain /\ y.position + 1 = x.position
  /\ \A x, y \in Fresh :
       /\ x.chain = y.chain /\ x.position = y.position => x = y
       /\ x.entity = y.entity =>
            (x.version < y.version <=> x.position < y.position)
  /\ \A e \in Entities :
       /\ version[e] <= version'[e]
       /\ \A v \in (version[e] + 1)..version'[e] :
            \E x \in Fresh : x.entity = e /\ x.version = v

Spec == Init /\ [][Append]_vars
=============================================================================
