-------------------------------- MODULE Virtio --------------------------------
(***************************************************************************)
(* The virtio-mmio transport (kernel/src/virtio.rs) around a Virtqueue: the *)
(* status register protocol, from the reset to DRIVER_OK and back, as the   *)
(* two self tests drive it.  The device is external: it resets in its own   *)
(* time, may refuse the features it is told, works on a queue from          *)
(* DRIVER_OK on, and raises its interrupt with every entry it publishes.    *)
(***************************************************************************)
EXTENDS Virtqueue

CONSTANTS
  VERSION_1,  \* the feature bit of the non-legacy specification
  Optional    \* the other feature bits there are

VARIABLES
  pc,              \* how far the driver has come
  status,          \* the STATUS register, a set of bits
  resetting,       \* external: told to reset and not done yet
  offered,         \* DEVICE_FEATURES
  wanted, agreed,  \* what negotiate was called with, and what it returns
  driverFeatures,  \* DRIVER_FEATURES
  kicked,          \* external: QUEUE_NOTIFY written since the device last looked
  interrupt,       \* INTERRUPT_STATUS
  acking           \* ack_interrupt has read a status it has not written back

handshakeVars == <<wanted, agreed, offered>>
registerVars == <<status, resetting, driverFeatures>>
noticeVars == <<kicked, interrupt, acking>>
vars == <<pc, handshakeVars, registerVars, noticeVars, queueVars>>

Acknowledged == {"ACKNOWLEDGE"}
Driven == {"ACKNOWLEDGE", "DRIVER"}
Confirmed == {"ACKNOWLEDGE", "DRIVER", "FEATURES_OK"}
Working == {"ACKNOWLEDGE", "DRIVER", "FEATURES_OK", "DRIVER_OK"}

(* Firmware may have used the device and left it as it was. *)
Init ==
  /\ QueueInit
  /\ pc = "untouched"
  /\ status \in {{}, Working}
  /\ offered \in SUBSET ({VERSION_1} \cup Optional)
  /\ wanted = {} /\ agreed = {} /\ driverFeatures = {}
  /\ resetting = FALSE /\ kicked = FALSE /\ interrupt = FALSE /\ acking = FALSE

-----------------------------------------------------------------------------
(* reset, up to its loop: a device already in reset has nothing to do. *)
WriteReset ==
  /\ resetting' = (status # {})
  /\ UNCHANGED <<status, driverFeatures>>

(* Variant: the reset is taken to be complete once it is written. *)
ResetAssumed == TRUE

(* The loop ends when the register reads zero. *)
ResetComplete == status = {}

(* negotiate *)
Negotiate ==
  /\ pc \in {"untouched", "idle"} /\ pc' = "reset"
  /\ WriteReset
  /\ wanted' \in SUBSET Optional
  /\ UNCHANGED <<agreed, offered, noticeVars, queueVars>>

SayAcknowledge ==
  /\ pc = "reset" /\ ResetComplete /\ pc' = "acknowledge"
  /\ status' = Acknowledged
  /\ UNCHANGED <<resetting, driverFeatures, handshakeVars, noticeVars, queueVars>>

SayDriver ==
  /\ pc = "acknowledge" /\ pc' = "driver"
  /\ status' = Driven
  /\ UNCHANGED <<resetting, driverFeatures, handshakeVars, noticeVars, queueVars>>

(* FAILED is written, negotiate returns the error and its callers panic. *)
Fail ==
  /\ pc' = "failed" /\ status' = {"FAILED"}
  /\ UNCHANGED <<resetting, driverFeatures, handshakeVars, noticeVars, queueVars>>

Legacy == pc = "driver" /\ VERSION_1 \notin offered /\ Fail

ChooseFeatures ==
  /\ pc = "driver" /\ VERSION_1 \in offered /\ pc' = "choose"
  /\ agreed' = offered \cap (wanted \cup {VERSION_1})
  /\ driverFeatures' = agreed'
  /\ UNCHANGED <<status, resetting, wanted, offered, noticeVars, queueVars>>

(* The write of FEATURES_OK, which the device keeps or drops *)
SayFeaturesOk ==
  /\ pc = "choose" /\ pc' = "confirm"
  /\ status' \in {Confirmed, Driven}
  /\ UNCHANGED <<resetting, driverFeatures, handshakeVars, noticeVars, queueVars>>

(* Variant: FEATURES_OK is written and not read back. *)
ConfirmUnread ==
  /\ pc = "confirm" /\ pc' = "agreed"
  /\ UNCHANGED <<registerVars, handshakeVars, noticeVars, queueVars>>

Confirm ==
  /\ pc = "confirm" /\ "FEATURES_OK" \in status /\ pc' = "agreed"
  /\ UNCHANGED <<registerVars, handshakeVars, noticeVars, queueVars>>

FeaturesRefused == pc = "confirm" /\ "FEATURES_OK" \notin status /\ Fail

-----------------------------------------------------------------------------
(* Queue::new, or its errors: a queue too small, no frame for the rings *)
NewQueue ==
  /\ pc = "agreed" /\ pc' = "queue"
  /\ New
  /\ UNCHANGED <<registerVars, handshakeVars, noticeVars>>

NoQueue ==
  /\ pc = "agreed" /\ pc' = "failed"
  /\ UNCHANGED <<registerVars, handshakeVars, noticeVars, queueVars>>

SetDriverOk ==
  /\ pc = "queue" /\ pc' = "up"
  /\ status' = status \cup {"DRIVER_OK"}
  /\ UNCHANGED <<resetting, driverFeatures, handshakeVars, noticeVars, queueVars>>

(* The driver is between two calls, or inside add. *)
Ready == pc = "up" /\ ~acking

AddRequest ==
  /\ Ready /\ (Publish \/ \E n \in 1 .. MaxChain : Add(n))
  /\ UNCHANGED <<pc, registerVars, handshakeVars, noticeVars>>

Notify ==
  /\ Ready /\ ~adding /\ kicked' = TRUE
  /\ UNCHANGED <<pc, registerVars, handshakeVars, interrupt, acking, queueVars>>

Poll ==
  /\ Ready /\ TakeUsed
  /\ UNCHANGED <<pc, registerVars, handshakeVars, noticeVars>>

(* The poll has been tried often enough: "the device never answered". *)
GiveUp ==
  /\ Ready /\ ~adding /\ requests # {} /\ ~UsedReady /\ pc' = "failed"
  /\ UNCHANGED <<registerVars, handshakeVars, noticeVars, queueVars>>

(* ack_interrupt: a read, and if there was something a write *)
AckRead ==
  /\ Ready /\ ~adding /\ interrupt /\ acking' = TRUE
  /\ UNCHANGED <<pc, registerVars, handshakeVars, kicked, interrupt, queueVars>>
AckWrite ==
  /\ pc = "up" /\ acking /\ acking' = FALSE /\ interrupt' = FALSE
  /\ UNCHANGED <<pc, registerVars, handshakeVars, kicked, queueVars>>

ReleaseQueue ==
  /\ Ready /\ pc' = "released"
  /\ Release
  /\ UNCHANGED <<registerVars, handshakeVars, noticeVars>>

(* The reset at the end of a self test; virtio::self_test builds no queue. *)
Stop ==
  /\ pc \in {"agreed", "released"} /\ pc' = "stop"
  /\ WriteReset
  /\ UNCHANGED <<handshakeVars, noticeVars, queueVars>>

Stopped ==
  /\ pc = "stop" /\ ResetComplete /\ pc' = "idle"
  /\ UNCHANGED <<registerVars, handshakeVars, noticeVars, queueVars>>

(* halt, after the panic *)
Halted == pc = "failed" /\ UNCHANGED vars

-----------------------------------------------------------------------------
(* The device *)
DeviceReset ==
  /\ resetting /\ resetting' = FALSE
  /\ status' = {} /\ driverFeatures' = {} /\ kicked' = FALSE /\ interrupt' = FALSE
  /\ DeviceForgets
  /\ UNCHANGED <<pc, handshakeVars, acking>>

(* It looks at the ring when it was notified, and may look at any time. *)
DeviceLooks ==
  /\ "DRIVER_OK" \in status /\ DeviceTake
  /\ kicked' = (kicked /\ deviceIndex' # availIndex)
  /\ UNCHANGED <<pc, registerVars, handshakeVars, interrupt, acking>>

DeviceWorks(d) ==
  /\ "DRIVER_OK" \in status /\ \E r \in inFlight : r.head = d /\ DeviceFinish(r)
  /\ UNCHANGED <<pc, registerVars, handshakeVars, noticeVars>>

DeviceAnswers ==
  /\ "DRIVER_OK" \in status /\ DevicePublish /\ interrupt' = TRUE
  /\ UNCHANGED <<pc, registerVars, handshakeVars, kicked, acking>>

Driver ==
  \/ Negotiate \/ SayAcknowledge \/ SayDriver \/ Legacy \/ ChooseFeatures \/ SayFeaturesOk
  \/ Confirm \/ FeaturesRefused \/ NewQueue \/ NoQueue \/ SetDriverOk
  \/ AddRequest \/ Notify \/ Poll \/ GiveUp \/ AckRead \/ AckWrite
  \/ ReleaseQueue \/ Stop \/ Stopped \/ Halted

Next ==
  Driver \/ DeviceReset \/ DeviceLooks \/ (\E d \in Descriptors : DeviceWorks(d)) \/ DeviceAnswers

Spec == Init /\ [][Next]_vars

(***************************************************************************)
(* add and ack_interrupt run to their end, add is followed by notify, the   *)
(* driver polls take_used until it answers, and a device that keeps to the  *)
(* specification looks when it is notified and finishes what it was given.  *)
(***************************************************************************)
FairSpec ==
  /\ Spec
  /\ WF_vars(adding /\ AddRequest) /\ WF_vars(AckWrite)
  /\ SF_vars(Notify) /\ SF_vars(Poll)
  /\ WF_vars(kicked /\ DeviceLooks) /\ WF_vars(DeviceAnswers)
  /\ \A d \in Descriptors : SF_vars(DeviceWorks(d))

-----------------------------------------------------------------------------
(***************************************************************************)
(* A driver that uses the device has one that is really up: it was reset,   *)
(* its status says exactly what the driver told it, it confirmed the        *)
(* features the driver believes in, which it offered, VERSION_1 among them, *)
(* and its queue is ready.                                                  *)
(***************************************************************************)
DeviceAgrees ==
  pc = "up" =>
    /\ status = Working /\ ~resetting /\ live
    /\ driverFeatures = agreed /\ VERSION_1 \in agreed /\ agreed \subseteq offered

(***************************************************************************)
(* "Leave it where it was found": between two drivers the device is in      *)
(* reset, with no queue, no request, no interrupt and nothing to come.      *)
(***************************************************************************)
LeftAsFound ==
  pc = "idle" =>
    status = {} /\ ~resetting /\ ~live /\ inFlight = {} /\ ~finishing /\ ~interrupt

(***************************************************************************)
(* A request queued comes back, unless the driver gives the queue up first. *)
(***************************************************************************)
RequestsComeBack ==
  \A d \in Descriptors : d \in Outstanding /\ pc = "up" ~> (d \notin Outstanding \/ pc # "up")

=============================================================================
