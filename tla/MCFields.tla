------------------------------ MODULE MCFields ------------------------------
(***************************************************************************)
(* Fields for TLC: fields with common topics, with none and with a wrong   *)
(* one.                                                                    *)
(***************************************************************************)
EXTENDS Fields

SmallSchema ==
  [f \in {"joined", "left", "broken"} |->
     CASE f = "joined" -> <<"users", "rooms">>
       [] f = "left"   -> <<"users">>
       [] f = "broken" -> <<"rooms", BadTopic>>]
=============================================================================
