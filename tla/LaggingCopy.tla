---------------------------- MODULE LaggingCopy ----------------------------
(***************************************************************************)
(* What asynchronous replication of a keyspace promises: the copy is an    *)
(* earlier state of the source and goes through the states the source went *)
(* through, in their order, none twice and none that never was; it may     *)
(* skip ahead to the state the source is in.                               *)
(***************************************************************************)
EXTENDS Sequences

CONSTANTS Key, Empty

VARIABLES
  source, copy,   \* what each key holds
  pending         \* the states of source that copy has yet to go through

vars == <<source, copy, pending>>

Init ==
  /\ source = [k \in Key |-> Empty]
  /\ copy = source
  /\ pending = <<>>

Change(k) ==
  /\ source' # source
  /\ source' = [source EXCEPT ![k] = source'[k]]
  /\ pending' = Append(pending, source')
  /\ UNCHANGED copy

CatchUp ==
  /\ pending # <<>>
  /\ copy' = Head(pending)
  /\ pending' = Tail(pending)
  /\ UNCHANGED source

SkipAhead ==
  /\ copy' = source
  /\ pending' = <<>>
  /\ UNCHANGED source

Next == (\E k \in Key : Change(k)) \/ CatchUp \/ SkipAhead

Spec == Init /\ [][Next]_vars

=============================================================================
