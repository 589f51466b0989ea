---------------------------- MODULE MCConfigStore ----------------------------
(***************************************************************************)
(* A record with a CRC, whose last page is full so that the write ends with *)
(* an empty one, and one without, whose last page is not.                   *)
(***************************************************************************)
EXTENDS ConfigStore

MCOrder == <<"table", "learned">>
MCAddresses == <<"table", "learned">>
MCWidth == [r \in Records |-> 2]
MCDefault == [r \in Records |-> [i \in Fields(r) |-> "d"]]

=============================================================================
