---------------------------- MODULE DevicePlugin ----------------------------
(***************************************************************************)
(* What the device plugin publishes and the scheduler reads back: at       *)
(* start-up patchNodeExtraResource (pkg/device/plugin/orin.go) encodes the *)
(* SoC IDs the provider lists for each board with BuildDecimalMap(_, 1)    *)
(* and applies them as the node's board-<id> capacities; NewNodeInfo      *)
(* (cache.go) decodes each with Parse and DefaultOrinStartBit, skipping a  *)
(* board whose value does not parse.  resource.NewQuantity and Value()     *)
(* carry an int64 unchanged.                                               *)
(*                                                                         *)
(* After the patch, main starts DevicePluginServer.Run (plugin.go) for the *)
(* resource: a loop that serves the gRPC endpoint, waits until it can dial *)
(* it, registers with the kubelet, and goes back to the restart label on a *)
(* Register error or when the kubelet re-creates kubelet.sock.  The       *)
(* kubelet is the environment: it stops, and on start removes the sockets  *)
(* of the device-plugin directory and creates kubelet.sock.               *)
(***************************************************************************)
EXTENDS Integers, FiniteSets, DecimalMap

CONSTANTS
    Boards,     \* board IDs of the provider file
    SocIDs,     \* SoC IDs a provider file may list
    Width,      \* integer width of the encoded value (64 in the code)
    MaxRestarts,          \* bound on restarts of the device-plugin process
    MaxKubeletRestarts,   \* bound on kubelet restarts
    MaxRegisterFailures   \* bound on Register calls failing with the kubelet up

\* The start bit patchNodeExtraResource passes, and DefaultOrinStartBit.
PublishStartBit == 1
DefaultOrinStartBit == 1

VARIABLES
    provider,   \* board -> the set of SoC IDs GetBoardOrins lists for it
    capacity,   \* the published capacity: board -> encoded value
    pc,         \* where the process is: "start" (before Run) or, in Run,
                \*   "restart", "serve", "wait", "register", "loop", or
                \*   "blocked" on a send to a full errChan
    listening,  \* the endpoint socket exists and the current gRPC server accepts on it
    served,     \* this Run has started a gRPC server (Serve ran)
    stopping,   \* the previous server's stop goroutine has not yet closed its listener
    kubelet,    \* "up" (kubelet.sock accepts) or "down"
    registered, \* the running kubelet holds a registration it could dial
    errChan,    \* a Register error is buffered in errChan
    events,     \* kubelet.sock Create events the watcher has not yet delivered
    restarts, kubeletRestarts, registerFailures

lifecycle == <<pc, listening, served, stopping, kubelet, registered, errChan, events,
               kubeletRestarts, registerFailures>>
vars == <<provider, capacity, restarts, lifecycle>>

\* A published node that no device plugin has patched yet.
Unpublished == [b \in {} |-> 0]

Init ==
    /\ provider \in [Boards -> SUBSET SocIDs]
    /\ capacity = Unpublished
    /\ pc = "start"
    /\ listening = FALSE
    /\ served = FALSE /\ stopping = FALSE
    /\ kubelet = "up"
    /\ registered = FALSE
    /\ errChan = FALSE
    /\ events = 0
    /\ restarts = 0 /\ kubeletRestarts = 0 /\ registerFailures = 0

\* The values BuildDecimalMap may produce for board b.
Encodings(b) == BuildDecimalMap(Width, provider[b], PublishStartBit)

\* patchNodeExtraResource: one BuildDecimalMap per board of the provider;
\* then main runs the plugin (OrinDevicePlugin.Run), which starts at the
\* restart label.
PatchNodeExtraResource ==
    /\ pc = "start"
    /\ capacity = Unpublished
    /\ \E v \in [Boards -> UNION {Encodings(b) : b \in Boards}] :
         /\ \A b \in Boards : v[b] \in Encodings(b)
         /\ capacity' = v
    /\ pc' = "restart"
    /\ UNCHANGED <<provider, restarts, listening, served, stopping, kubelet, registered, errChan,
                   events, kubeletRestarts, registerFailures>>

\* The plugin process is restarted with an edited provider file: its
\* server and watcher die with it (the socket file it leaves is not
\* served), so the kubelet loses the plugin; it patches again.
Restart ==
    /\ capacity # Unpublished
    /\ restarts < MaxRestarts
    /\ provider' \in [Boards -> SUBSET SocIDs]
    /\ capacity' = Unpublished
    /\ pc' = "start"
    /\ listening' = FALSE /\ registered' = FALSE
    /\ served' = FALSE /\ stopping' = FALSE
    /\ errChan' = FALSE /\ events' = 0
    /\ restarts' = restarts + 1
    /\ UNCHANGED <<kubelet, kubeletRestarts, registerFailures>>

RunUnchanged == UNCHANGED <<provider, capacity, restarts, kubelet, kubeletRestarts>>

\* restart: close(stoChan) wakes the stop goroutine of the server the
\* previous Serve started, if any; then Run sleeps one second.
StopServer ==
    /\ pc = "restart"
    /\ stopping' = served
    /\ pc' = "serve"
    /\ UNCHANGED <<listening, served, registered, errChan, events, registerFailures>>
    /\ RunUnchanged

\* Serve without the sleep: the next Listen may precede the old close.
ServeNoSleep ==
    /\ pc = "serve"
    /\ listening' = TRUE /\ served' = TRUE
    /\ pc' = "wait"
    /\ UNCHANGED <<stopping, registered, errChan, events, registerFailures>>
    /\ RunUnchanged

\* Serve removes the socket file, listens on a new one and starts the
\* server and its stop goroutine.  Timing assumption: the one-second sleep
\* outlasts the old goroutine's GracefulStop closing its listener.
Serve ==
    /\ pc = "serve"
    /\ ~stopping
    /\ listening' = TRUE /\ served' = TRUE
    /\ pc' = "wait"
    /\ UNCHANGED <<stopping, registered, errChan, events, registerFailures>>
    /\ RunUnchanged

\* The previous server's stop goroutine: GracefulStop and listener.Close,
\* whose close unlinks the socket path, whichever socket it names now.
OldServerStop ==
    /\ stopping
    /\ stopping' = FALSE /\ listening' = FALSE
    /\ UNCHANGED <<pc, served, registered, errChan, events, registerFailures>>
    /\ RunUnchanged

\* Wait dials the endpoint; on error, goto restart.
Wait ==
    /\ pc = "wait"
    /\ pc' = IF listening THEN "register" ELSE "restart"
    /\ UNCHANGED <<listening, served, stopping, registered, errChan, events, registerFailures>>
    /\ RunUnchanged

\* Register dials kubelet.sock and sends the endpoint, which the kubelet
\* then dials; an error is sent on errChan (buffer 1), and Run enters its
\* loop.  When an earlier error is still buffered (the select took a
\* kubelet.sock event instead) the send blocks, and nothing else receives.
Register ==
    /\ pc = "register"
    /\ \E ok \in IF registerFailures < MaxRegisterFailures THEN BOOLEAN ELSE {TRUE} :
         IF kubelet = "up" /\ ok
         THEN /\ registered' = listening
              /\ pc' = "loop"
              /\ UNCHANGED <<errChan, registerFailures>>
         ELSE /\ errChan' = TRUE
              /\ pc' = IF errChan THEN "blocked" ELSE "loop"
              /\ registerFailures' = IF kubelet = "up" THEN registerFailures + 1
                                     ELSE registerFailures
              /\ UNCHANGED registered
    /\ UNCHANGED <<listening, served, stopping, events>>
    /\ RunUnchanged

\* The select receives the Register error: goto restart.
LoopRegisterError ==
    /\ pc = "loop" /\ errChan
    /\ errChan' = FALSE
    /\ pc' = "restart"
    /\ UNCHANGED <<listening, served, stopping, registered, events, registerFailures>>
    /\ RunUnchanged

\* Fault-injection variant: the event is consumed but never matches
\* kubelet.sock, so Run stays in its loop.
LoopKubeletCreatedUnmatched ==
    /\ pc = "loop" /\ events > 0
    /\ events' = events - 1
    /\ UNCHANGED <<pc, listening, served, stopping, registered, errChan, registerFailures>>
    /\ RunUnchanged

\* The select receives the Create event of kubelet.sock: goto restart.
LoopKubeletCreated ==
    /\ pc = "loop" /\ events > 0
    /\ events' = events - 1
    /\ pc' = "restart"
    /\ UNCHANGED <<listening, served, stopping, registered, errChan, registerFailures>>
    /\ RunUnchanged

KubeletUnchanged == UNCHANGED <<provider, capacity, restarts, pc, served, stopping,
                                errChan, registerFailures>>

\* The kubelet stops and forgets every registration.
KubeletStop ==
    /\ kubelet = "up" /\ kubeletRestarts < MaxKubeletRestarts
    /\ kubelet' = "down" /\ registered' = FALSE
    /\ kubeletRestarts' = kubeletRestarts + 1
    /\ UNCHANGED <<listening, events>>
    /\ KubeletUnchanged

\* The kubelet starts: it empties the device-plugin directory, removing
\* the plugin's socket, and creates kubelet.sock, which the watcher of a
\* running Run reports as a Create event.
KubeletStart ==
    /\ kubelet = "down"
    /\ kubelet' = "up" /\ listening' = FALSE
    /\ events' = IF pc = "start" THEN events ELSE events + 1
    /\ UNCHANGED <<registered, kubeletRestarts>>
    /\ KubeletUnchanged

PluginStep == StopServer \/ Serve \/ Wait \/ Register \/ LoopRegisterError \/ LoopKubeletCreated

Next == PatchNodeExtraResource \/ Restart \/ PluginStep \/ OldServerStop
        \/ KubeletStop \/ KubeletStart

\* The plugin's main goroutine and Run keep running (sleeps end, dials
\* time out); a stopped kubelet is started again by its service manager.
Fairness ==
    /\ WF_vars(PatchNodeExtraResource)
    /\ WF_vars(PluginStep)
    /\ WF_vars(OldServerStop)
    /\ WF_vars(KubeletStart)

Spec == Init /\ [][Next]_vars /\ Fairness

\* NewNodeInfo's Total: the boards whose value parses, with their SoCs.
DecodedTotal ==
    LET good == {b \in DOMAIN capacity : Parse(capacity[b], DefaultOrinStartBit).ok}
    IN [b \in good |-> Parse(capacity[b], DefaultOrinStartBit).set]

\* The IDs the encoding can carry: positions 0 .. ExactDigits above the
\* start bit (startBit .. startBit + 18 for int64).
EncodableIDs == PublishStartBit .. PublishStartBit + ExactDigits(Width, 0)

-----------------------------------------------------------------------------
(* Properties.                                                             *)

\* Codec round trip (spec, section 7): for every board whose SoC IDs the
\* encoding can carry, the scheduler decodes exactly the SoCs the provider
\* lists, through BuildDecimalMap, the published quantity and Parse.
PublishedRoundTrip ==
    capacity # Unpublished =>
        \A b \in Boards : provider[b] \subseteq EncodableIDs =>
            b \in DOMAIN DecodedTotal /\ DecodedTotal[b] = provider[b]

\* Self-healing registration: whatever bounded mix of kubelet restarts,
\* Register errors and plugin restarts happens, Run's restart loop
\* eventually leaves the running kubelet holding a registration of an
\* endpoint that is served, for good.
RegisteredEventually == <>[](registered /\ listening)

\* The same, unless Run blocks sending a second Register error on the full
\* errChan: in particular no old server's stop goroutine unlinks the socket
\* a later Serve listens on, leaving a registration nobody serves.
RegisteredUnlessBlocked == RegisteredEventually \/ <>(pc = "blocked")

=============================================================================
