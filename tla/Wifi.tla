-------------------------------- MODULE Wifi --------------------------------
(***************************************************************************)
(* The association state machine of drivers/wifi/wifi.c.  Three threads    *)
(* share its variables without a lock and can be preempted anywhere: the   *)
(* management task, which checks the deadlines, the receive task, which    *)
(* acts on the access point's answers, and the shell, which connects and   *)
(* disconnects.                                                            *)
(*                                                                         *)
(* A thread decides what to do from the shared state in one step and then  *)
(* executes the statements it has chosen, todo[t], one step each, so that  *)
(* the others run between the decision and its consequences and between    *)
(* any two of these.  The shared variables are the record w.               *)
(*                                                                         *)
(* The access point is external: any management frame may arrive at any    *)
(* time, or none.  Time is what wifi_check_deadline sees of it: a deadline *)
(* is pending until it has elapsed (the wrap of the 32-bit tick counter is *)
(* left out), and "none" is the code's deadline of 0.                      *)
(***************************************************************************)
EXTENDS Integers, Sequences

CONSTANTS
  MAX_RETRIES,   \* WIFI_MAX_RETRIES
  NumMgmtDesc,   \* WIFI_NUM_MGMT_DESC
  ApMac,         \* the access point's address
  MaxAttempts,   \* bound on the calls of wifi_assoc
  MaxSignals     \* bound on the count of wifi_mgmt_sem

ASSUME WifiAssumption ==
  /\ MAX_RETRIES \in Nat /\ NumMgmtDesc \in Nat \ {0}
  /\ MaxAttempts \in Nat /\ MaxSignals \in Nat \ {0}

VARIABLES
  w,        \* the driver's static variables
  todo,     \* the statements each thread has still to execute
  frame,    \* the management frame the receive task is to handle, or "none"
  hw,       \* the MAC: "reset" before wifi_init, "on", "off" after wifi_stop
  attempts, \* the calls of wifi_assoc that started an association
  heard,    \* history: the frames acted upon since the last of them
  late      \* history: the tasks that had statements left when the scan began

wifivars == <<w, todo, frame, hw, attempts, heard, late>>

Threads == {"mgmt", "rx", "shell"}
States == {"DOWN", "INIT", "SCANNING", "AUTHENTICATING", "ASSOCIATING",
           "ASSOCIATED", "FAILED"}
InProgress == {"SCANNING", "AUTHENTICATING", "ASSOCIATING"}
Frames == {"probe_match", "probe_other", "auth_ok", "auth_refused",
           "assoc_ok", "assoc_refused", "deauth"}

\* The address a DEAUTH must come from: no code assigns wifi_bssid.
wifi_bssid == "00:00:00:00:00:00"

-----------------------------------------------------------------------------
(* The statements that write shared variables.                             *)

Set(field, value) == [do |-> "set", field |-> field, value |-> value]
State(s) == Set("state", s)
NoDeadline == Set("deadline", "none")
wifi_set_assoc_deadline == Set("deadline", "pending")
NoRetries == Set("retry", 0)

\* wifi_retry_count++ after the test of the value r: the increment may use the
\* value tested or the value the variable has by then.
CountRetry(r) == [do |-> "retry", r |-> r]

\* Fill a management buffer, hand its descriptor to the DMA, advance the head.
\* HEAD stands for the descriptor at mgmt_desc_head when the statement runs.
HEAD == -1
Fill(d) == [do |-> "fill", d |-> d]
HandOver(d) == [do |-> "own", d |-> d]
Advance == [do |-> "advance"]
BuildAndSend == <<Fill(HEAD), HandOver(HEAD), Advance>>

wifi_mgmt_transmit == [do |-> "transmit"]
SignalMgmt == [do |-> "signal"]
DisableMac == [do |-> "disable"]

\* Mutant: the deadline is cleared before the state is left.
Fail_DeadlineFirst == <<NoDeadline, State("FAILED"), NoRetries>>

\* wifi_set_state(WIFI_STATE_FAILED).
Fail == <<State("FAILED"), NoDeadline, NoRetries>>

Desc(o) == IF o.d = HEAD THEN w.head ELSE o.d

\* The values the shared variables may have after statement o.
Effect(o) ==
  CASE o.do = "set"     -> {[w EXCEPT ![o.field] = o.value]}
    [] o.do = "retry"   -> {[w EXCEPT !.retry = r + 1] : r \in {o.r, w.retry}}
    [] o.do = "own"     -> {[w EXCEPT !.owner[Desc(o)] = "DMA"]}
    [] o.do = "advance" -> {[w EXCEPT !.head = (@ + 1) % NumMgmtDesc]}
    [] o.do = "signal"  -> {[w EXCEPT !.sem = @ + 1]}
    [] OTHER            -> {w}

\* What wifi_mgmt_transmit goes on to do: nothing unless the driver is up and
\* the descriptor at the head is the CPU's.
Transmission ==
  IF w.state \in {"DOWN", "INIT", "FAILED"} \/ w.owner[w.head] = "DMA"
    THEN <<>>
    ELSE <<Fill(w.head), HandOver(w.head), Advance>>

-----------------------------------------------------------------------------
(* The decisions.                                                          *)

Due == w.deadline = "due"

\* Mutant: one retry too many.
RetryLeft_OneMore == w.retry <= MAX_RETRIES

RetryLeft == w.retry < MAX_RETRIES

\* One pass of wifi_mgmt_task_func.
MgmtPass ==
  CASE w.state = "SCANNING" /\ ~Due -> BuildAndSend
    [] w.state = "SCANNING" /\ Due /\ w.rssi # 0 ->
         <<wifi_mgmt_transmit, State("AUTHENTICATING"), wifi_set_assoc_deadline>>
    [] w.state = "SCANNING" /\ Due /\ w.rssi = 0 /\ RetryLeft ->
         <<CountRetry(w.retry), wifi_set_assoc_deadline, wifi_mgmt_transmit>>
    [] w.state = "SCANNING" /\ Due /\ w.rssi = 0 /\ ~RetryLeft -> Fail
    [] w.state \in {"AUTHENTICATING", "ASSOCIATING"} /\ Due /\ RetryLeft ->
         <<CountRetry(w.retry), wifi_set_assoc_deadline>> \o BuildAndSend
    [] w.state \in {"AUTHENTICATING", "ASSOCIATING"} /\ Due /\ ~RetryLeft -> Fail
    [] OTHER -> <<>>

wifi_parse_probe_resp(f) ==
  IF f = "probe_match" THEN <<Set("rssi", -50)>> ELSE <<>>

wifi_parse_auth_resp(f) ==
  IF f = "auth_ok"
    THEN <<NoRetries, State("ASSOCIATING"), wifi_set_assoc_deadline>> \o BuildAndSend
    ELSE Fail

wifi_parse_assoc_resp(f) ==
  IF f = "assoc_ok" THEN <<State("ASSOCIATED"), NoRetries, NoDeadline>> ELSE Fail

\* Mutant: an association response is not checked against the state.
wifi_process_mgmt_frame_AnyState(f) ==
  CASE w.state = "SCANNING" /\ f \in {"probe_match", "probe_other"} ->
         wifi_parse_probe_resp(f)
    [] w.state = "AUTHENTICATING" /\ f \in {"auth_ok", "auth_refused"} ->
         wifi_parse_auth_resp(f)
    [] f \in {"assoc_ok", "assoc_refused"} -> wifi_parse_assoc_resp(f)
    [] OTHER -> <<>>

\* A response is parsed only in the state that waits for it.
wifi_process_mgmt_frame(f) ==
  CASE w.state = "SCANNING" /\ f \in {"probe_match", "probe_other"} ->
         wifi_parse_probe_resp(f)
    [] w.state = "AUTHENTICATING" /\ f \in {"auth_ok", "auth_refused"} ->
         wifi_parse_auth_resp(f)
    [] w.state = "ASSOCIATING" /\ f \in {"assoc_ok", "assoc_refused"} ->
         wifi_parse_assoc_resp(f)
    [] w.state = "ASSOCIATED" /\ f = "deauth" /\ ApMac = wifi_bssid -> Fail
    [] OTHER -> <<>>

-----------------------------------------------------------------------------
(* The steps.                                                              *)

WifiInit ==
  /\ w = [state |-> "DOWN", rssi |-> 0, retry |-> 0, deadline |-> "none",
          head |-> 0, owner |-> [d \in 0 .. NumMgmtDesc - 1 |-> "CPU"], sem |-> 0]
  /\ todo = [t \in Threads |-> <<>>]
  /\ frame = "none"
  /\ hw = "reset"
  /\ attempts = 0
  /\ heard = {}
  /\ late = {}

Idle(t) == todo[t] = <<>>
Choose(t, ops) == todo' = [todo EXCEPT ![t] = ops]

\* kernel_main calls wifi_init, once, before any task runs.
wifi_init ==
  /\ hw = "reset" /\ w.state = "DOWN"
  /\ w' = [w EXCEPT !.state = "INIT"]
  /\ UNCHANGED <<todo, frame, hw, attempts, heard, late>>

\* Its end: an interface and two tasks created, or WIFI_STATE_ERROR; success
\* sets WIFI_STATE_UP, which is WIFI_STATE_ASSOCIATED.
wifi_init_done ==
  /\ hw = "reset" /\ w.state = "INIT"
  /\ \/ w' = [w EXCEPT !.state = "FAILED"] /\ hw' = "off"
     \/ w' = [w EXCEPT !.state = "ASSOCIATED"] /\ hw' = "on"
  /\ UNCHANGED <<todo, frame, attempts, heard, late>>

\* The shell's "wifi connect".
wifi_assoc ==
  /\ Idle("shell")
  /\ w.state = "ASSOCIATED"
  /\ attempts < MaxAttempts
  /\ attempts' = attempts + 1
  /\ heard' = {}
  /\ Choose("shell", <<NoRetries, State("SCANNING"), wifi_set_assoc_deadline,
                       SignalMgmt>>)
  /\ UNCHANGED <<w, frame, hw, late>>

\* The shell's "wifi disconnect".  task_destroy frees the two tasks but takes
\* neither out of the queue it is in, so that a preempted one goes on.
wifi_stop ==
  /\ Idle("shell")
  /\ w.state # "DOWN" /\ hw # "reset"
  /\ Choose("shell", <<DisableMac, State("DOWN")>>)
  /\ UNCHANGED <<w, frame, hw, attempts, heard, late>>

\* The management task returns from semaphore_wait and looks at the state.
MgmtWakes ==
  /\ Idle("mgmt")
  /\ w.sem > 0
  /\ w' = [w EXCEPT !.sem = @ - 1]
  /\ Choose("mgmt", MgmtPass)
  /\ UNCHANGED <<frame, hw, attempts, heard, late>>

\* The receive task handles a management frame.
RxHandles ==
  /\ Idle("rx")
  /\ frame # "none"
  /\ frame' = "none"
  /\ Choose("rx", wifi_process_mgmt_frame(frame))
  /\ heard' = IF wifi_process_mgmt_frame(frame) = <<>> THEN heard
              ELSE heard \union {frame}
  /\ UNCHANGED <<w, hw, attempts, late>>

\* A thread executes its next statement.
Execute(t) ==
  /\ ~Idle(t)
  /\ LET o == Head(todo[t]) IN
     /\ w' \in Effect(o)
     /\ Choose(t, (IF o.do = "transmit" THEN Transmission ELSE <<>>)
                    \o Tail(todo[t]))
     /\ hw' = IF o.do = "disable" THEN "off" ELSE hw
     /\ late' = IF o = State("SCANNING") THEN {r \in Threads \ {t} : ~Idle(r)} ELSE late
  /\ UNCHANGED <<frame, attempts, heard>>

\* A management frame is received: wifi_isr signals both tasks.  It runs if the
\* MAC's interrupt is directed to it, which no code of the repository does.
wifi_isr(f) ==
  /\ hw = "on"
  /\ frame = "none"
  /\ w.sem < MaxSignals
  /\ frame' = f
  /\ w' = [w EXCEPT !.sem = @ + 1]
  /\ UNCHANGED <<todo, hw, attempts, heard, late>>

\* The MAC sends a management frame and gives the descriptor back.
MacSends(d) ==
  /\ hw = "on"
  /\ w.owner[d] = "DMA"
  /\ w' = [w EXCEPT !.owner[d] = "CPU"]
  /\ UNCHANGED <<todo, frame, hw, attempts, heard, late>>

\* The tick counter reaches the deadline.
Elapse ==
  /\ w.deadline = "pending"
  /\ w' = [w EXCEPT !.deadline = "due"]
  /\ UNCHANGED <<todo, frame, hw, attempts, heard, late>>

Receive == \E f \in Frames : wifi_isr(f)

WifiNext ==
  \/ wifi_init \/ wifi_init_done \/ wifi_assoc \/ wifi_stop
  \/ MgmtWakes \/ RxHandles \/ Receive \/ Elapse
  \/ \E t \in Threads : Execute(t)
  \/ \E d \in 0 .. NumMgmtDesc - 1 : MacSends(d)

WifiSpec == WifiInit /\ [][WifiNext]_wifivars

\* The scheduler runs every thread that can run, and time passes: that the two
\* tasks were queued is assumed, since task_wake leaves them STOPPED.
WifiFairness ==
  /\ WF_wifivars(MgmtWakes) /\ WF_wifivars(RxHandles) /\ WF_wifivars(Elapse)
  /\ \A t \in Threads : WF_wifivars(Execute(t))

\* The access point may be silent.
WifiFairSpec == WifiSpec /\ WifiFairness

\* Management frames keep arriving, as a network's beacons do.  No code installs
\* or enables wifi_isr, so this is no promise of the program: it is the best
\* case, and what goes wrong even then is not for want of a signal.
WifiBusySpec == WifiFairSpec /\ WF_wifivars(Receive)

-----------------------------------------------------------------------------
(* Properties.                                                             *)

\* Types; wifi_retry_count never passes WIFI_MAX_RETRIES, although it is tested
\* and counted in steps that others' resets may separate.
WifiTypeOK ==
  /\ w.state \in States
  /\ w.rssi \in {0, -50}
  /\ w.retry \in 0 .. MAX_RETRIES
  /\ w.deadline \in {"none", "pending", "due"}
  /\ w.head \in 0 .. NumMgmtDesc - 1
  /\ w.owner \in [0 .. NumMgmtDesc - 1 -> {"CPU", "DMA"}]
  /\ w.sem \in 0 .. MaxSignals + MaxAttempts
  /\ frame \in Frames \union {"none"}

\* The attempt moves on only by what the access point has said.  An association
\* is reported only when both the authentication and the association of this
\* very attempt were accepted, whatever answers of an earlier one are still on
\* their way; only wifi_init reports one itself.  The first attempt
\* authenticates only when a probe response of its scan named the network;
\* later ones may go by an earlier one's, since wifi_rssi is never reset.
ProgressOnlyIfHeard ==
  [][/\ w'.state = "ASSOCIATED" /\ w.state # "ASSOCIATED" /\ hw # "reset" =>
          {"auth_ok", "assoc_ok"} \subseteq heard
     /\ w'.state = "AUTHENTICATING" /\ w.state = "SCANNING" /\ attempts = 1 =>
          "probe_match" \in heard]_wifivars

\* A scan has a deadline from the moment wifi_assoc has set it: neither the
\* management task's passes and retries nor answers clear it before the scan is
\* over.  Only a task that was still busy with the last attempt when the scan
\* began can: wifi_set_state and the report of an association clear the
\* deadline after they have set the state.
ScanHasDeadline ==
  w.state = "SCANNING" /\ w.deadline = "none" =>
    late # {} \/ \E i \in DOMAIN todo["shell"] : todo["shell"][i] = wifi_set_assoc_deadline

\* ARCHITECTURE.md: "Timeout and retry logic (3 retries, configurable
\* timeouts)".  An attempt ends, one way or another, unless the driver is
\* stopped.
AttemptConcludes ==
  w.state \in InProgress ~> w.state \notin InProgress \/ hw = "off"

=============================================================================
