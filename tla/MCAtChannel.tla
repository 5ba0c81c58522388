--------------------------- MODULE MCAtChannel ---------------------------
(* Instances of AtChannel: a plain command, a query, a listing, an SMS.    *)
EXTENDS AtChannel
CONSTANTS simple, query, listing, sms

MCType == [c \in Commands |->
             CASE c = simple -> "NO_RESULT" [] c = listing -> "MULTILINE"
               [] OTHER -> "SINGLELINE"]
==========================================================================
