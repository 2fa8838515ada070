--------------------------- MODULE StreamDelivery ---------------------------
(***************************************************************************)
(* What one bridged stream promises the client of CLIProxyAPI: the events  *)
(* the upstream produced arrive one at a time and in order, the stream     *)
(* ends exactly once, nothing arrives after the end, and an end that       *)
(* claims completeness is announced only once every event was delivered.   *)
(* ExecuteStream implements this specification.                            *)
(***************************************************************************)
EXTENDS Naturals, Sequences

CONSTANTS Source    \* the events of the upstream answer, in order

VARIABLES phase,    \* where the client's stream stands
          received  \* the events the client has been given

deliveryVars == <<phase, received>>

DeliveryInit == phase = "idle" /\ received = <<>>

Open == /\ phase = "idle"
        /\ phase' = "flowing"
        /\ UNCHANGED received

Deliver == /\ phase = "flowing"
           /\ Len(received) < Len(Source)
           /\ received' = Append(received, Source[Len(received) + 1])
           /\ UNCHANGED phase

Complete == /\ phase = "flowing"
            /\ received = Source
            /\ phase' = "complete"
            /\ UNCHANGED received

Break == /\ phase = "flowing"
         /\ phase' = "broken"
         /\ UNCHANGED received

DeliveryNext == Open \/ Deliver \/ Complete \/ Break

DeliverySafety == DeliveryInit /\ [][DeliveryNext]_deliveryVars

\* A stream that was opened does not stay open for ever.
DeliverySpec == DeliverySafety /\ WF_deliveryVars(Complete \/ Break)
=============================================================================
