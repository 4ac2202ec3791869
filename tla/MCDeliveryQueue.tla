-------------------------- MODULE MCDeliveryQueue --------------------------
(***************************************************************************)
(* Small instances of DeliveryQueue for TLC.                               *)
(***************************************************************************)
EXTENDS DeliveryRefinement, TLC

CONSTANTS i1, i2, w1, w2, b1, b2

Items1   == {i1}
Items2   == {i1, i2}
Workers1 == {w1}
Workers2 == {w1, w2}

\* The two recipients of one SMTP transaction, with one body; or a message of
\* the API and a non-delivery report.
SharedBlob == [i \in Items |-> b1]
OwnBlob    == i1 :> b1 @@ i2 :> b2
OriginSmtp == [i \in Items |-> "outbound"]
OriginNdr  == i1 :> "sent" @@ i2 :> "ndr"

Delays1 == <<1>>
=============================================================================
