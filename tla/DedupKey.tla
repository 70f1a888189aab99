------------------------------ MODULE DedupKey ------------------------------
(***************************************************************************)
(* The identity of a webhook: Event.dedup_key hashes the project, the      *)
(* environment, the signal and the timestamp joined by colons.             *)
(*                                                                         *)
(* Texts are sequences of characters.  The text of a timestamp counts as   *)
(* one symbol: isoformat() has a fixed shape, and no timestamp is what     *)
(* follows a colon inside another.  SHA-256 is taken to be injective, so a *)
(* key is the text that is hashed.                                         *)
(***************************************************************************)
EXTENDS Naturals, Sequences

Colon == ":"

\* Event.workload_key.
WorkloadKey(event) == event.project \o <<Colon>> \o event.environment

\* Mutant of DedupKeyOf: the fields are joined without a separator.
DedupKeyUnseparated(event) ==
    event.project \o event.environment \o event.signal \o <<event.timestamp>>

DedupKeyOf(event) ==
    WorkloadKey(event) \o <<Colon>> \o event.signal \o <<Colon, event.timestamp>>

\* A text in which the joined fields can be told apart.
HasNoColon(text) == \A i \in DOMAIN text : text[i] # Colon
=============================================================================
