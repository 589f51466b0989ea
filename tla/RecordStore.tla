------------------------------ MODULE RecordStore ------------------------------
(***************************************************************************)
(* What the configuration store promises of a record with a CRC (common.c): *)
(* read at any moment, a power cut included, it gives the defaults or a     *)
(* configuration that was whole in memory when some task began to save it.  *)
(* It does not promise the last one, nor even one of the last two.          *)
(***************************************************************************)
CONSTANTS Names, Configurations, Defaults   \* Defaults[r] is in Configurations

VARIABLES
  reads,       \* reads[r]: what a load of r would give
  known        \* known[r]: configurations a save of r has begun with

Init ==
  /\ known \in [Names -> SUBSET Configurations]
  /\ reads \in [Names -> Configurations]
  /\ \A r \in Names : reads[r] \in known[r] \union {Defaults[r]}

Learn(r, c) ==
  /\ known' = [known EXCEPT ![r] = @ \union {c}]
  /\ UNCHANGED reads

\* A write of a page, an erase: any record may come to read differently.
Change ==
  /\ reads' \in [Names -> Configurations]
  /\ \A r \in Names : reads'[r] \in known[r] \union {Defaults[r]}
  /\ UNCHANGED known

Next == Change \/ \E r \in Names, c \in Configurations : Learn(r, c)

Spec == Init /\ [][Next]_<<reads, known>>

=============================================================================
