------------------------------ MODULE WincHif ------------------------------
(***************************************************************************)
(* The host interface to the WINC: the interrupt request of winc_adapter.c *)
(* and the handshake of winc_hif.c, by which the firmware hands over one   *)
(* message at a time.                                                      *)
(*                                                                         *)
(* The firmware is external.  It announces a message (NBIT0 of             *)
(* WIFI_HOST_RCV_CTRL_0, and the INT line goes low) when the buffer of the *)
(* one before has been given back (RX Done).  winc_hif_handle_isr is split *)
(* where the interrupt of the INT line can come between.  The firmware's   *)
(* messages are well formed: their sizes and groups are not checked here.  *)
(*                                                                         *)
(* bSPIBusError of winc_spi.c is set by the first operation that fails,    *)
(* and every later operation then fails, until winc_bus_init.              *)
(***************************************************************************)
EXTENDS Integers

VARIABLES
    serviceRequest,
    sensing,    \* does a falling edge of INT interrupt?
    edge,       \* the interrupt flag of INT
    message,    \* of the firmware: the message in the receive buffer
    busError,   \* bSPIBusError
    hif         \* where the main program is in winc_hif_handle_isr

intVars == <<serviceRequest, sensing, edge>>
hifVars == <<intVars, message, busError, hif>>

HifTypeOK ==
    /\ serviceRequest \in 0 .. 127      \* int_fast8_t
    /\ sensing \in BOOLEAN
    /\ edge \in BOOLEAN
    /\ message \in {"none", "announced", "taken"}
    /\ busError \in BOOLEAN
    /\ hif \in {"idle", "callback", "disable", "decrement", "enable", "done", "reset"}

HifInit ==
    /\ serviceRequest = 0
    /\ sensing = TRUE
    /\ edge = FALSE
    /\ message = "none"
    /\ busError = FALSE
    /\ hif = "idle"

-----------------------------------------------------------------------------
\* The firmware announces a message; the edge is seen if the pin is sensed.
Announce ==
    /\ message = "none"
    /\ message' = "announced"
    /\ edge' = (edge \/ sensing)
    /\ UNCHANGED <<serviceRequest, sensing, busError, hif>>

\* The interrupt of the pin; NBIT0 holds the line low.
winc_interrupt_handler ==
    /\ edge
    /\ edge' = FALSE
    /\ serviceRequest' = IF message = "announced" THEN serviceRequest + 1
                         ELSE serviceRequest
    /\ UNCHANGED <<sensing, message, busError, hif>>

-----------------------------------------------------------------------------
(***************************************************************************)
(* winc_hif_handle_isr.  A step that finds nothing, or a false interrupt,  *)
(* or the bus in error, returns and changes nothing.                       *)
(***************************************************************************)

Requested == hif = "idle" /\ serviceRequest # 0 /\ ~busError /\ message = "announced"

\* NBIT0 is cleared, and the message is there to be read.
TakeMessage ==
    /\ Requested
    /\ message' = "taken"
    /\ hif' = "callback"
    /\ UNCHANGED <<intVars, busError>>

\* The bus fails before NBIT0 is cleared or after it.
TakeFails ==
    /\ Requested
    /\ message' \in {"announced", "taken"}
    /\ busError' = TRUE
    /\ UNCHANGED <<intVars, hif>>

\* The callback has returned; it may have met an error of the bus.
CallbackDone ==
    /\ hif = "callback"
    /\ hif' = "disable"
    /\ UNCHANGED <<intVars, message>>

\* Mutant: the message is given back before the request is counted as served.
DisableGivenBack ==
    /\ hif = "disable"
    /\ sensing' = FALSE
    /\ message' = "none"
    /\ hif' = "decrement"
    /\ UNCHANGED <<serviceRequest, edge, busError>>

\* winc_adapter_interrupt_serviced(true)
DisableInterrupt ==
    /\ hif = "disable"
    /\ sensing' = FALSE
    /\ hif' = "decrement"
    /\ UNCHANGED <<serviceRequest, edge, message, busError>>

CountServiced ==
    /\ hif = "decrement"
    /\ serviceRequest' = IF serviceRequest # 0 THEN serviceRequest - 1 ELSE 0
    /\ hif' = "enable"
    /\ UNCHANGED <<sensing, edge, message, busError>>

EnableInterrupt ==
    /\ hif = "enable"
    /\ sensing' = TRUE
    /\ hif' = "done"
    /\ UNCHANGED <<serviceRequest, edge, message, busError>>

\* The message is given back.  The bus may fail here, and has failed if it did before.
RxDone ==
    /\ hif = "done"
    /\ \/ ~busError /\ message' = "none" /\ UNCHANGED busError
       \/ busError' = TRUE /\ message' \in {"taken", "none"}
    /\ hif' = "idle"
    /\ UNCHANGED intVars

Serviced == DisableInterrupt \/ CountServiced \/ EnableInterrupt \/ RxDone

-----------------------------------------------------------------------------
(***************************************************************************)
(* winc_hif_send.  A request is refused while the firmware has no memory   *)
(* for it, or lost when the bus fails; an error of the last writes comes   *)
(* too late to stop it.                                                    *)
(***************************************************************************)

Outcomes == {"sent", "refused", "lost", "unsure"}
Delivered(outcome) == outcome \in {"sent", "unsure"}

winc_hif_send(outcome) ==
    /\ busError => outcome = "lost"
    /\ busError' = (outcome \in {"lost", "unsure"})
    /\ UNCHANGED <<intVars, message>>

-----------------------------------------------------------------------------
\* wifi_reinit: the counter is cleared ...
AdapterInit ==
    /\ hif = "idle"
    /\ serviceRequest' = 0
    /\ hif' = "reset"
    /\ UNCHANGED <<sensing, edge, message, busError>>

\* ... and the chip is reset, which may fail with the bus.
ChipReset ==
    /\ hif = "reset"
    /\ message' = "none"
    /\ busError' \in BOOLEAN
    /\ hif' = "idle"
    /\ UNCHANGED intVars

-----------------------------------------------------------------------------
HifNext ==
    \/ Announce \/ winc_interrupt_handler
    \/ TakeMessage \/ TakeFails
    \/ CallbackDone /\ busError' \in {busError, TRUE}
    \/ Serviced
    \/ \E outcome \in Outcomes : winc_hif_send(outcome) /\ UNCHANGED hif
    \/ AdapterInit \/ ChipReset

HifSpec == HifInit /\ [][HifNext]_hifVars

-----------------------------------------------------------------------------
\* No message is announced without a request that makes winc_hif_handle_isr look for it:
\* not while the counter is decremented with the pin unsensed, and not over a restart.
\* Requests do not pile up: a restart that clears the counter before it resets the chip
\* leaves at most one too many.
EveryMessageRequested ==
    /\ message = "announced" => serviceRequest # 0 \/ edge \/ hif = "reset"
    /\ serviceRequest <= 2

=============================================================================
