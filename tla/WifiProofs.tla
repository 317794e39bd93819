----------------------------- MODULE WifiProofs -----------------------------
(***************************************************************************)
(* Proofs about module Wifi, for any number of retries, descriptors,       *)
(* attempts and signals: the types, the bound on wifi_retry_count among    *)
(* them, and that an attempt moves on only by what the access point said.  *)
(*                                                                         *)
(* A thread's statements run long after they were chosen, so the           *)
(* invariants are about the statements that are still to be executed: what *)
(* was true when the thread chose them and no other thread can undo.       *)
(***************************************************************************)
EXTENDS Wifi, SequenceTheorems, TLAPS

\* The statements of a sequence, and those after the first.
Elems(s) == {s[i] : i \in 1 .. Len(s)}
Later(s) == {s[i] : i \in 2 .. Len(s)}

Ring == 0 .. NumMgmtDesc - 1

\* The statements of each thread.
Common ==
  {NoDeadline, wifi_set_assoc_deadline, NoRetries, Advance}
    \union {Fill(d) : d \in {HEAD} \union Ring}
    \union {HandOver(d) : d \in {HEAD} \union Ring}
MgmtStatements ==
  Common \union {State("AUTHENTICATING"), State("FAILED"), wifi_mgmt_transmit}
    \union {CountRetry(r) : r \in {x \in Nat : x < MAX_RETRIES}}
RxStatements ==
  Common \union {State("ASSOCIATING"), State("ASSOCIATED"), State("FAILED"), Set("rssi", -50)}
ShellStatements ==
  Common \union {State("SCANNING"), State("DOWN"), SignalMgmt, DisableMac}
Statements == MgmtStatements \union RxStatements \union ShellStatements

Shared ==
  [state : States, rssi : {0, -50}, retry : 0 .. MAX_RETRIES,
   deadline : {"none", "pending", "due"}, head : Ring,
   owner : [Ring -> {"CPU", "DMA"}], sem : Nat]

Types ==
  /\ w \in Shared
  /\ todo \in [Threads -> Seq(Statements)]
  /\ frame \in Frames \union {"none"}
  /\ hw \in {"reset", "on", "off"}
  /\ attempts \in 0 .. MaxAttempts
  /\ heard \subseteq Frames
  /\ Elems(todo["mgmt"]) \subseteq MgmtStatements
  /\ Elems(todo["rx"]) \subseteq RxStatements
  /\ Elems(todo["shell"]) \subseteq ShellStatements

\* Before wifi_init is done nothing else has happened.
ResetInv ==
  hw = "reset" =>
    /\ todo = [t \in Threads |-> <<>>] /\ frame = "none" /\ w.sem = 0
    /\ w.state \in {"DOWN", "INIT"}

\* The count is still below the limit when it is incremented: only the
\* management task increments it, once per decision.
RetryInv ==
  /\ \A o \in Later(todo["mgmt"]) : o.do # "retry"
  /\ \A o \in Elems(todo["mgmt"]) : o.do = "retry" => w.retry < MAX_RETRIES

\* wifi_assoc signals once per attempt, with its last statement.
SignalLast(s) == \A i \in 1 .. Len(s) : s[i] = SignalMgmt => i = Len(s)
SignalInv ==
  /\ SignalLast(todo["shell"])
  /\ w.sem =< MaxSignals + attempts
  /\ SignalMgmt \in Elems(todo["shell"]) =>
       attempts >= 1 /\ w.sem + 1 =< MaxSignals + attempts

\* What the receive task has still to report was heard in this attempt, and no
\* new attempt can start before it is reported.
HeardInv ==
  /\ w.state = "ASSOCIATING" => "auth_ok" \in heard
  /\ State("ASSOCIATING") \in Elems(todo["rx"]) =>
       /\ "auth_ok" \in heard /\ w.state # "ASSOCIATED"
       /\ State("ASSOCIATED") \notin Elems(todo["rx"])
  /\ State("ASSOCIATED") \in Elems(todo["rx"]) =>
       {"auth_ok", "assoc_ok"} \subseteq heard /\ w.state # "ASSOCIATED"
  /\ State("ASSOCIATED") \notin Later(todo["rx"])

\* In the first attempt the signal strength is known only from its scan.
Knows ==
  \/ w.rssi # 0
  \/ Set("rssi", -50) \in Elems(todo["rx"])
  \/ State("AUTHENTICATING") \in Elems(todo["mgmt"])
ScanInv ==
  /\ attempts = 0 =>
       /\ w.state \notin InProgress /\ w.rssi = 0
       /\ todo["mgmt"] = <<>>
       /\ Elems(todo["rx"]) \subseteq {State("FAILED"), NoDeadline, NoRetries}
       /\ Elems(todo["shell"]) \subseteq {State("DOWN"), DisableMac}
  /\ attempts = 1 /\ Knows => "probe_match" \in heard

WifiInv == Types /\ ResetInv /\ RetryInv /\ SignalInv /\ HeardInv /\ ScanInv

-----------------------------------------------------------------------------
(* Sequences of statements. *)

LEMMA NoElems == Elems(<<>>) = {} /\ Later(<<>>) = {} /\ SignalLast(<<>>)
  BY DEF Elems, Later, SignalLast

LEMMA LaterInElems ==
  ASSUME NEW s PROVE Later(s) \subseteq Elems(s)
  BY DEF Elems, Later

LEMMA Concat ==
  ASSUME NEW S, NEW s \in Seq(S), NEW u \in Seq(S), s # <<>>
  PROVE  /\ s \o u \in Seq(S)
         /\ Elems(s \o u) \subseteq Elems(s) \union Elems(u)
         /\ Later(s \o u) \subseteq Later(s) \union Elems(u)
  <1>1. /\ s \o u \in Seq(S) /\ Len(s \o u) = Len(s) + Len(u)
        /\ \A i \in 1 .. Len(s) + Len(u) :
             (s \o u)[i] = IF i <= Len(s) THEN s[i] ELSE u[i - Len(s)]
    BY ConcatProperties
  <1>2. Len(s) \in Nat /\ Len(u) \in Nat /\ Len(s) >= 1
    BY EmptySeq, LenProperties
  <1>3. ASSUME NEW i \in 1 .. Len(s \o u)
        PROVE  \/ i <= Len(s) /\ (s \o u)[i] = s[i]
               \/ i - Len(s) \in 1 .. Len(u) /\ (s \o u)[i] = u[i - Len(s)]
    BY <1>1, <1>2
  <1>4. Elems(s \o u) \subseteq Elems(s) \union Elems(u)
    BY <1>2, <1>3 DEF Elems
  <1>5. Later(s \o u) \subseteq Later(s) \union Elems(u)
    BY <1>2, <1>3 DEF Elems, Later
  <1>6. QED
    BY <1>1, <1>4, <1>5

\* The head of what a thread has to do is done, and u put in its place.
LEMMA Done ==
  ASSUME NEW S, NEW s \in Seq(S), NEW u \in Seq(S), s # <<>>
  PROVE  /\ Head(s) \in S /\ Head(s) \in Elems(s)
         /\ Tail(s) \in Seq(S) /\ u \o Tail(s) \in Seq(S)
         /\ Elems(Tail(s)) = Later(s)
         /\ Elems(u \o Tail(s)) \subseteq Elems(u) \union Later(s)
         /\ Later(u \o Tail(s)) \subseteq Elems(u) \union Later(s)
         /\ (SignalLast(s) => SignalLast(Tail(s)))
         /\ (SignalLast(s) /\ Head(s) = SignalMgmt => Later(s) = {})
  <1>1. /\ Head(s) \in S /\ Tail(s) \in Seq(S) /\ Len(Tail(s)) = Len(s) - 1
        /\ \A i \in 1 .. Len(Tail(s)) : Tail(s)[i] = s[i + 1]
    BY HeadTailProperties
  <1>2. Len(s) \in Nat /\ Len(s) >= 1 /\ Head(s) = s[1]
    BY EmptySeq, LenProperties
  <1>3. Elems(Tail(s)) = Later(s)
    <2>1. ASSUME NEW i \in 1 .. Len(Tail(s)) PROVE i + 1 \in 2 .. Len(s) /\ Tail(s)[i] = s[i + 1]
      BY <1>1, <1>2
    <2>2. ASSUME NEW i \in 2 .. Len(s)
          PROVE  i - 1 \in 1 .. Len(Tail(s)) /\ Tail(s)[i - 1] = s[i]
      BY <1>1, <1>2
    <2>3. Elems(Tail(s)) \subseteq Later(s)
      BY <2>1 DEF Elems, Later
    <2>4. Later(s) \subseteq Elems(Tail(s))
      BY <2>2 DEF Elems, Later
    <2>5. QED
      BY <2>3, <2>4
  <1>4. Head(s) \in Elems(s)
    BY <1>2 DEF Elems
  <1>5. SignalLast(s) => SignalLast(Tail(s))
    <2>1. ASSUME NEW i \in 1 .. Len(Tail(s)) PROVE i + 1 \in 1 .. Len(s) /\ Tail(s)[i] = s[i + 1]
      BY <1>1, <1>2
    <2>2. ASSUME SignalLast(s), NEW i \in 1 .. Len(Tail(s)), Tail(s)[i] = SignalMgmt
          PROVE  i = Len(Tail(s))
      <3>1. PICK j \in 1 .. Len(s) : j = i + 1 /\ s[j] = SignalMgmt
        BY <2>1, <2>2
      <3>2. j = Len(s)
        BY <2>2, <3>1 DEF SignalLast
      <3>3. i = Len(s) - 1
        BY <1>2, <3>1, <3>2
      <3>4. QED
        BY <1>1, <3>3
    <2>3. QED
      BY <2>2 DEF SignalLast
  <1>6. SignalLast(s) /\ Head(s) = SignalMgmt => Later(s) = {}
    BY <1>2 DEF SignalLast, Later
  <1>7. CASE u = <<>>
    <2>1. u \o Tail(s) = Tail(s)
      BY <1>1, <1>7, ConcatEmptySeq
    <2>2. QED
      BY <1>1, <1>3, <1>4, <1>5, <1>6, <2>1, LaterInElems
  <1>8. CASE u # <<>>
    <2>1. /\ u \o Tail(s) \in Seq(S)
          /\ Elems(u \o Tail(s)) \subseteq Elems(u) \union Elems(Tail(s))
          /\ Later(u \o Tail(s)) \subseteq Later(u) \union Elems(Tail(s))
      BY <1>1, <1>8, Concat
    <2>2. QED
      BY <1>1, <1>3, <1>4, <1>5, <1>6, <2>1, LaterInElems
  <1>9. QED
    BY <1>7, <1>8

LEMMA Tuple1 ==
  ASSUME NEW S, NEW a \in S
  PROVE  <<a>> \in Seq(S) /\ Elems(<<a>>) = {a} /\ Later(<<a>>) = {} /\ <<a>> # <<>>
  BY DEF Elems, Later

LEMMA Tuple2 ==
  ASSUME NEW S, NEW a \in S, NEW b \in S
  PROVE  /\ <<a, b>> \in Seq(S) /\ <<a, b>> # <<>>
         /\ Elems(<<a, b>>) = {a, b} /\ Later(<<a, b>>) = {b}
  BY DEF Elems, Later

LEMMA Tuple3 ==
  ASSUME NEW S, NEW a \in S, NEW b \in S, NEW c \in S
  PROVE  /\ <<a, b, c>> \in Seq(S) /\ <<a, b, c>> # <<>>
         /\ Elems(<<a, b, c>>) = {a, b, c} /\ Later(<<a, b, c>>) = {b, c}
  BY DEF Elems, Later

LEMMA Tuple4 ==
  ASSUME NEW S, NEW a \in S, NEW b \in S, NEW c \in S, NEW d \in S
  PROVE  /\ <<a, b, c, d>> \in Seq(S) /\ <<a, b, c, d>> # <<>>
         /\ Elems(<<a, b, c, d>>) = {a, b, c, d} /\ Later(<<a, b, c, d>>) = {b, c, d}
  BY DEF Elems, Later

-----------------------------------------------------------------------------
(* What the statements do. *)

\* Which statement a record is can be told from its fields.
LEMMA Kinds ==
  /\ \A x : State(x).do = "set" /\ State(x).field = "state" /\ State(x).value = x
  /\ NoRetries.do = "set" /\ NoRetries.field = "retry"
  /\ NoDeadline.do = "set" /\ NoDeadline.field = "deadline" /\ NoDeadline.value = "none"
  /\ wifi_set_assoc_deadline.do = "set" /\ wifi_set_assoc_deadline.field = "deadline"
  /\ wifi_set_assoc_deadline.value = "pending"
  /\ Set("rssi", -50).do = "set" /\ Set("rssi", -50).field = "rssi"
  /\ \A r : CountRetry(r).do = "retry" /\ CountRetry(r).r = r
  /\ \A d : Fill(d).do = "fill" /\ HandOver(d).do = "own" /\ HandOver(d).d = d
  /\ Advance.do = "advance" /\ wifi_mgmt_transmit.do = "transmit"
  /\ SignalMgmt.do = "signal" /\ DisableMac.do = "disable"
  BY DEF State, NoRetries, NoDeadline, wifi_set_assoc_deadline, Set, CountRetry, Fill,
         HandOver, Advance, wifi_mgmt_transmit, SignalMgmt, DisableMac

\* What a statement o may change: from the shared variables w to v.
Changes(o, v) ==
  /\ v.state = w.state \/ (v.state \in States /\ o = State(v.state))
  /\ v.rssi = w.rssi \/ o = Set("rssi", -50)
  /\ v.retry = w.retry \/ v.retry = 0 \/ o.do = "retry"
  /\ v.sem = w.sem \/ (o = SignalMgmt /\ v.sem = w.sem + 1)

LEMMA SetChanges ==
  ASSUME w \in Shared, NEW f, NEW x, NEW v \in Effect(Set(f, x)),
         \/ f = "state" /\ x \in States
         \/ f = "rssi" /\ x = -50
         \/ f = "retry" /\ x = 0
         \/ f = "deadline" /\ x \in {"none", "pending"}
  PROVE  v \in Shared /\ Changes(Set(f, x), v)
  <1>1. v = [w EXCEPT ![f] = x]
    BY DEF Effect, Set
  <1>2. 0 \in 0 .. MAX_RETRIES
    BY WifiAssumption
  <1>3. CASE f = "state" /\ x \in States
    BY <1>1, <1>3 DEF Shared, Changes, State
  <1>4. CASE f = "rssi" /\ x = -50
    BY <1>1, <1>4 DEF Shared, Changes
  <1>5. CASE f = "retry" /\ x = 0
    BY <1>1, <1>2, <1>5 DEF Shared, Changes
  <1>6. CASE f = "deadline" /\ x \in {"none", "pending"}
    BY <1>1, <1>6 DEF Shared, Changes
  <1>7. QED
    BY <1>3, <1>4, <1>5, <1>6

LEMMA EffectChanges ==
  ASSUME w \in Shared, NEW o \in Statements, NEW v \in Effect(o),
         o.do = "retry" => w.retry < MAX_RETRIES
  PROVE  v \in Shared /\ Changes(o, v)
  <1>1. CASE o.do = "set"
    <2>1. PICK f, x : /\ o = Set(f, x)
                      /\ \/ f = "state" /\ x \in States
                         \/ f = "rssi" /\ x = -50
                         \/ f = "retry" /\ x = 0
                         \/ f = "deadline" /\ x \in {"none", "pending"}
      BY <1>1, Kinds DEF Statements, MgmtStatements, RxStatements, ShellStatements, Common,
                         State, NoDeadline, wifi_set_assoc_deadline, NoRetries, States
    <2>2. QED
      BY <2>1, SetChanges
  <1>2. CASE o.do = "retry"
    <2>1. PICK r \in Nat : o = CountRetry(r) /\ r < MAX_RETRIES
      BY <1>2, Kinds DEF Statements, MgmtStatements, RxStatements, ShellStatements, Common
    <2>2. \E q \in {r, w.retry} : v = [w EXCEPT !.retry = q + 1]
      BY <2>1 DEF Effect, CountRetry
    <2>3. PICK n \in 0 .. MAX_RETRIES : v = [w EXCEPT !.retry = n]
      BY <1>2, <2>1, <2>2, WifiAssumption DEF Shared
    <2>4. QED
      BY <1>2, <2>3 DEF Shared, Changes
  <1>3. CASE o.do = "own"
    <2>1. PICK d \in {HEAD} \union Ring : o = HandOver(d)
      BY <1>3, Kinds DEF Statements, MgmtStatements, RxStatements, ShellStatements, Common
    <2>2. Desc(o) \in Ring
      BY <2>1, Kinds DEF Desc, Shared
    <2>3. PICK c \in Ring : c = Desc(o)
      BY <2>2
    <2>4. v = [w EXCEPT !.owner[c] = "DMA"]
      BY <1>3, <2>3 DEF Effect
    <2>5. QED
      BY <2>4 DEF Shared, Changes
  <1>4. CASE o.do = "advance"
    <2>1. v = [w EXCEPT !.head = (@ + 1) % NumMgmtDesc]
      BY <1>4 DEF Effect
    <2>2. PICK h \in Ring : h = (w.head + 1) % NumMgmtDesc
      BY WifiAssumption DEF Shared, Ring
    <2>3. v = [w EXCEPT !.head = h]
      BY <2>1, <2>2
    <2>4. QED
      BY <2>3 DEF Shared, Changes
  <1>5. CASE o.do = "signal"
    <2>1. o = SignalMgmt
      BY <1>5, Kinds DEF Statements, MgmtStatements, RxStatements, ShellStatements, Common
    <2>2. v = [w EXCEPT !.sem = @ + 1]
      BY <1>5 DEF Effect
    <2>3. QED
      BY <2>1, <2>2 DEF Shared, Changes
  <1>6. CASE o.do \notin {"set", "retry", "own", "advance", "signal"}
    <2>1. v = w
      BY <1>6 DEF Effect
    <2>2. QED
      BY <2>1 DEF Changes
  <1>7. QED
    BY <1>1, <1>2, <1>3, <1>4, <1>5, <1>6

-----------------------------------------------------------------------------
(* What the threads choose to do. *)

LEMMA CommonStatements ==
  /\ NoDeadline \in Statements /\ wifi_set_assoc_deadline \in Statements
  /\ NoRetries \in Statements /\ SignalMgmt \in Statements /\ DisableMac \in Statements
  /\ wifi_mgmt_transmit \in Statements /\ Set("rssi", -50) \in Statements
  /\ \A x \in {"SCANNING", "AUTHENTICATING", "ASSOCIATING", "ASSOCIATED", "FAILED", "DOWN"} :
       State(x) \in Statements
  /\ \A r \in Nat : r < MAX_RETRIES => CountRetry(r) \in Statements
  /\ Advance \in Statements
  /\ \A d \in {HEAD} \union Ring : Fill(d) \in Statements /\ HandOver(d) \in Statements
  BY DEF Statements, MgmtStatements, RxStatements, ShellStatements, Common

LEMMA SendStatements ==
  ASSUME NEW d \in {HEAD} \union Ring
  PROVE  LET s == <<Fill(d), HandOver(d), Advance>> IN
         /\ s \in Seq(Statements) /\ s # <<>>
         /\ Elems(s) = {Fill(d), HandOver(d), Advance}
         /\ Later(s) = {HandOver(d), Advance}
  BY CommonStatements, Tuple3

LEMMA SendCommon ==
  /\ BuildAndSend \in Seq(Statements)
  /\ Elems(BuildAndSend) = {Fill(HEAD), HandOver(HEAD), Advance}
  /\ Later(BuildAndSend) \subseteq {HandOver(HEAD), Advance}
  <1>1. HEAD \in {HEAD} \union Ring
    OBVIOUS
  <1>2. QED
    BY <1>1, SendStatements DEF BuildAndSend

LEMMA FailStatements ==
  /\ Fail \in Seq(Statements) /\ Fail # <<>>
  /\ Elems(Fail) = {State("FAILED"), NoDeadline, NoRetries}
  /\ Later(Fail) = {NoDeadline, NoRetries}
  BY CommonStatements, Tuple3 DEF Fail

\* wifi_mgmt_transmit hands over one descriptor, or does nothing.
LEMMA TransmissionStatements ==
  ASSUME w \in Shared
  PROVE  /\ Transmission \in Seq(Statements)
         /\ Elems(Transmission) \subseteq {Fill(w.head), HandOver(w.head), Advance}
         /\ w.head \in Ring
  <1>1. PICK d \in {HEAD} \union Ring : d = w.head /\ d \in Ring
    BY DEF Shared
  <1>2. CASE Transmission = <<>>
    BY <1>1, <1>2, NoElems
  <1>3. CASE Transmission = <<Fill(d), HandOver(d), Advance>>
    BY <1>1, <1>3, SendStatements
  <1>4. QED
    BY <1>1, <1>2, <1>3 DEF Transmission

\* A pass of the management task: a retry is the first statement and left, and
\* it goes on to authenticate only when a signal strength is known.
MgmtChoice(s) ==
  /\ s \in Seq(Statements) /\ Elems(s) \subseteq MgmtStatements
  /\ \A o \in Later(s) : o.do # "retry"
  /\ \A o \in Elems(s) : o.do = "retry" => w.retry < MAX_RETRIES
  /\ State("AUTHENTICATING") \in Elems(s) => w.rssi # 0
  /\ w.state \notin InProgress => s = <<>>

LEMMA MgmtPassChoice ==
  ASSUME w \in Shared
  PROVE  MgmtChoice(MgmtPass)
  <1>0. /\ w.retry \in Nat /\ HEAD \in {HEAD} \union Ring
        /\ (RetryLeft <=> w.retry < MAX_RETRIES)
    BY WifiAssumption DEF Shared, RetryLeft
  <1>1. CASE MgmtPass = <<>>
    BY <1>1, NoElems DEF MgmtChoice
  <1>2. CASE MgmtPass = BuildAndSend /\ w.state \in InProgress
    BY <1>2, SendCommon, Kinds DEF MgmtChoice, MgmtStatements, Common
  <1>3. CASE MgmtPass = Fail /\ w.state \in InProgress
    BY <1>3, FailStatements, Kinds DEF MgmtChoice, MgmtStatements, Common
  <1>4. CASE /\ w.state \in InProgress /\ w.rssi # 0
             /\ MgmtPass = <<wifi_mgmt_transmit, State("AUTHENTICATING"), wifi_set_assoc_deadline>>
    <2>1. /\ MgmtPass \in Seq(Statements)
          /\ Elems(MgmtPass) = {wifi_mgmt_transmit, State("AUTHENTICATING"), wifi_set_assoc_deadline}
          /\ Later(MgmtPass) = {State("AUTHENTICATING"), wifi_set_assoc_deadline}
      BY <1>4, CommonStatements, Tuple3
    <2>2. QED
      BY <1>4, <2>1, Kinds DEF MgmtChoice, MgmtStatements, Common
  <1>5. CASE /\ w.state \in InProgress /\ w.retry < MAX_RETRIES
             /\ MgmtPass = <<CountRetry(w.retry), wifi_set_assoc_deadline, wifi_mgmt_transmit>>
    <2>1. /\ MgmtPass \in Seq(Statements)
          /\ Elems(MgmtPass) = {CountRetry(w.retry), wifi_set_assoc_deadline, wifi_mgmt_transmit}
          /\ Later(MgmtPass) = {wifi_set_assoc_deadline, wifi_mgmt_transmit}
      BY <1>0, <1>5, CommonStatements, Tuple3
    <2>2. QED
      BY <1>0, <1>5, <2>1, Kinds DEF MgmtChoice, MgmtStatements, Common
  <1>6. CASE /\ w.state \in InProgress /\ w.retry < MAX_RETRIES
             /\ MgmtPass = <<CountRetry(w.retry), wifi_set_assoc_deadline>> \o BuildAndSend
    <2>1. PICK a : a = <<CountRetry(w.retry), wifi_set_assoc_deadline>>
      OBVIOUS
    <2>2. /\ a \in Seq(Statements) /\ a # <<>>
          /\ Elems(a) = {CountRetry(w.retry), wifi_set_assoc_deadline}
          /\ Later(a) = {wifi_set_assoc_deadline}
      BY <1>0, <1>6, <2>1, CommonStatements, Tuple2
    <2>3. /\ MgmtPass \in Seq(Statements)
          /\ Elems(MgmtPass) \subseteq Elems(a) \union Elems(BuildAndSend)
          /\ Later(MgmtPass) \subseteq Later(a) \union Elems(BuildAndSend)
      BY <1>6, <2>1, <2>2, SendCommon, Concat
    <2>4. /\ Elems(MgmtPass) \subseteq {CountRetry(w.retry), wifi_set_assoc_deadline,
                                      Fill(HEAD), HandOver(HEAD), Advance}
          /\ Later(MgmtPass) \subseteq {wifi_set_assoc_deadline,
                                      Fill(HEAD), HandOver(HEAD), Advance}
      BY <2>2, <2>3, SendCommon
    <2>5. Elems(MgmtPass) \subseteq MgmtStatements
      BY <1>0, <1>6, <2>4 DEF MgmtStatements, Common
    <2>6. \A o \in Later(MgmtPass) : o.do # "retry"
      BY <2>4, Kinds
    <2>7. State("AUTHENTICATING") \notin Elems(MgmtPass)
      BY <2>4, Kinds
    <2>8. QED
      BY <1>6, <2>3, <2>5, <2>6, <2>7 DEF MgmtChoice
  <1>7. QED
    BY <1>0, <1>1, <1>2, <1>3, <1>4, <1>5, <1>6 DEF MgmtPass, InProgress

\* What the receive task chooses for frame f, and what of it matters to the
\* attempt.
RxChoice(f, s) ==
  /\ s \in Seq(Statements) /\ Elems(s) \subseteq RxStatements
  /\ State("ASSOCIATED") \notin Later(s)
  /\ State("ASSOCIATING") \in Elems(s) =>
       f = "auth_ok" /\ w.state = "AUTHENTICATING" /\ State("ASSOCIATED") \notin Elems(s)
  /\ State("ASSOCIATED") \in Elems(s) => f = "assoc_ok" /\ w.state = "ASSOCIATING"
  /\ Set("rssi", -50) \in Elems(s) => f = "probe_match"
  /\ w.state \notin InProgress => Elems(s) \subseteq {State("FAILED"), NoDeadline, NoRetries}

LEMMA ProcessChoice ==
  ASSUME w \in Shared, NEW f
  PROVE  RxChoice(f, wifi_process_mgmt_frame(f))
  <1>0. PICK s : s = wifi_process_mgmt_frame(f)
    OBVIOUS
  <1>1. CASE s = <<>>
    BY <1>0, <1>1, NoElems DEF RxChoice
  <1>2. CASE s = Fail
    BY <1>0, <1>2, FailStatements, Kinds DEF RxChoice, RxStatements, Common
  <1>3. CASE s = <<Set("rssi", -50)>> /\ f = "probe_match" /\ w.state = "SCANNING"
    <2>1. s \in Seq(Statements) /\ Elems(s) = {Set("rssi", -50)} /\ Later(s) = {}
      BY <1>3, CommonStatements, Tuple1
    <2>2. QED
      BY <1>0, <1>3, <2>1, Kinds DEF RxChoice, RxStatements, InProgress
  <1>4. CASE /\ s = <<NoRetries, State("ASSOCIATING"), wifi_set_assoc_deadline>> \o BuildAndSend
             /\ f = "auth_ok" /\ w.state = "AUTHENTICATING"
    <2>1. PICK a : a = <<NoRetries, State("ASSOCIATING"), wifi_set_assoc_deadline>>
      OBVIOUS
    <2>2. /\ a \in Seq(Statements) /\ a # <<>>
          /\ Elems(a) = {NoRetries, State("ASSOCIATING"), wifi_set_assoc_deadline}
          /\ Later(a) = {State("ASSOCIATING"), wifi_set_assoc_deadline}
      BY <2>1, CommonStatements, Tuple3
    <2>3. /\ s \in Seq(Statements)
          /\ Elems(s) \subseteq Elems(a) \union Elems(BuildAndSend)
          /\ Later(s) \subseteq Later(a) \union Elems(BuildAndSend)
      BY <1>4, <2>1, <2>2, SendCommon, Concat
    <2>4. /\ Elems(s) \subseteq {NoRetries, State("ASSOCIATING"), wifi_set_assoc_deadline,
                               Fill(HEAD), HandOver(HEAD), Advance}
          /\ Later(s) \subseteq {State("ASSOCIATING"), wifi_set_assoc_deadline,
                               Fill(HEAD), HandOver(HEAD), Advance}
      BY <2>2, <2>3, SendCommon
    <2>5. Elems(s) \subseteq RxStatements
      BY <2>4 DEF RxStatements, Common
    <2>6. Elems(s) \intersect {State("ASSOCIATED"), Set("rssi", -50)} = {}
      BY <2>4, Kinds
    <2>7. QED
      BY <1>0, <1>4, <2>3, <2>5, <2>6, LaterInElems DEF RxChoice, InProgress
  <1>5. CASE /\ s = <<State("ASSOCIATED"), NoRetries, NoDeadline>>
             /\ f = "assoc_ok" /\ w.state = "ASSOCIATING"
    <2>1. /\ s \in Seq(Statements)
          /\ Elems(s) = {State("ASSOCIATED"), NoRetries, NoDeadline}
          /\ Later(s) = {NoRetries, NoDeadline}
      BY <1>5, CommonStatements, Tuple3
    <2>2. QED
      BY <1>0, <1>5, <2>1, Kinds DEF RxChoice, RxStatements, Common, InProgress
  <1>6. QED
    BY <1>0, <1>1, <1>2, <1>3, <1>4, <1>5
    DEF wifi_process_mgmt_frame, wifi_parse_probe_resp, wifi_parse_auth_resp,
        wifi_parse_assoc_resp

-----------------------------------------------------------------------------
(* The statements executed. *)

\* Thread t has executed o: from s to n are its statements.
Executes(t, o, s, n) ==
  /\ o \in Elems(s) /\ o \in Statements
  /\ n \in Seq(Statements)
  /\ \E h \in Ring :
       /\ Elems(n) \subseteq Later(s) \union {Fill(h), HandOver(h), Advance}
       /\ Later(n) \subseteq Later(s) \union {Fill(h), HandOver(h), Advance}
  /\ t # "mgmt" => Elems(n) = Later(s)
  /\ t # "mgmt" /\ SignalLast(s) =>
       SignalLast(n) /\ (o = SignalMgmt => Later(s) = {})

LEMMA ExecuteEffect ==
  ASSUME Types, RetryInv, NEW t \in Threads, Execute(t)
  PROVE  \E o : /\ Executes(t, o, todo[t], todo'[t])
                /\ w' \in Shared /\ Changes(o, w')
                /\ \A r \in Threads \ {t} : todo'[r] = todo[r]
                /\ todo' \in [Threads -> Seq(Statements)]
                /\ hw' \in {hw, "off"}
  <1>1. PICK s : s = todo[t]
    OBVIOUS
  <1>2. PICK o : o = Head(s)
    OBVIOUS
  <1>3. PICK u : u = (IF o.do = "transmit" THEN Transmission ELSE <<>>)
    OBVIOUS
  <1>4. /\ s \in Seq(Statements) /\ s # <<>>
        /\ w' \in Effect(o) /\ todo' = [todo EXCEPT ![t] = u \o Tail(s)]
        /\ hw' \in {hw, "off"}
    BY <1>1, <1>2, <1>3 DEF Execute, Idle, Choose, Types
  <1>5. PICK h \in Ring : h = w.head
    BY DEF Types, Shared
  <1>6. u \in Seq(Statements) /\ Elems(u) \subseteq {Fill(h), HandOver(h), Advance}
    <2>1. CASE o.do = "transmit"
      BY <1>3, <1>5, <2>1, TransmissionStatements DEF Types
    <2>2. CASE o.do # "transmit"
      BY <1>3, <2>2, NoElems
    <2>3. QED
      BY <2>1, <2>2
  <1>7. /\ o \in Statements /\ o \in Elems(s)
        /\ u \o Tail(s) \in Seq(Statements) /\ Tail(s) \in Seq(Statements)
        /\ Elems(Tail(s)) = Later(s)
        /\ Elems(u \o Tail(s)) \subseteq Elems(u) \union Later(s)
        /\ Later(u \o Tail(s)) \subseteq Elems(u) \union Later(s)
        /\ (SignalLast(s) => SignalLast(Tail(s)))
        /\ (SignalLast(s) /\ o = SignalMgmt => Later(s) = {})
    BY <1>2, <1>4, <1>6, Done
  <1>8. ASSUME t # "mgmt" PROVE u \o Tail(s) = Tail(s)
    <2>1. o.do # "transmit"
      <3>1. o \in RxStatements \union ShellStatements
        BY <1>1, <1>7, <1>8 DEF Types, Threads
      <3>2. QED
        BY <3>1, Kinds DEF RxStatements, ShellStatements, Common
    <2>2. QED
      BY <1>3, <1>7, <2>1, ConcatEmptySeq
  <1>9. PICK n : n = u \o Tail(s)
    OBVIOUS
  <1>10. Executes(t, o, s, n)
    BY <1>6, <1>7, <1>8, <1>9 DEF Executes
  <1>11. o.do = "retry" => w.retry < MAX_RETRIES
    <2>1. ASSUME o.do = "retry" PROVE t = "mgmt"
      <3>1. o \notin RxStatements \union ShellStatements
        BY <2>1, Kinds DEF RxStatements, ShellStatements, Common
      <3>2. QED
        BY <1>1, <1>7, <3>1 DEF Types, Threads
    <2>2. QED
      BY <1>1, <1>7, <2>1 DEF RetryInv
  <1>12. w' \in Shared /\ Changes(o, w')
    BY <1>4, <1>7, <1>11, EffectChanges DEF Types
  <1>13. /\ todo' \in [Threads -> Seq(Statements)] /\ todo'[t] = n
         /\ \A r \in Threads \ {t} : todo'[r] = todo[r]
    BY <1>4, <1>7, <1>9 DEF Types
  <1>14. QED
    BY <1>1, <1>4, <1>10, <1>12, <1>13

\* What the statements of each thread can do to the shared state.
LEMMA ThreadChanges ==
  ASSUME NEW o, NEW v, Changes(o, v), w \in Shared
  PROVE  /\ o \in MgmtStatements =>
              /\ v.state \in {w.state, "AUTHENTICATING", "FAILED"}
              /\ v.state = "AUTHENTICATING" => v.state = w.state \/ o = State("AUTHENTICATING")
              /\ v.rssi = w.rssi /\ v.sem = w.sem
         /\ o \in RxStatements =>
              /\ v.state \in {w.state, "ASSOCIATING", "ASSOCIATED", "FAILED"}
              /\ v.state # w.state => o = State(v.state)
              /\ v.sem = w.sem /\ v.retry \in {w.retry, 0}
              /\ v.rssi # w.rssi => o = Set("rssi", -50)
         /\ o \in ShellStatements =>
              /\ v.state \in {w.state, "SCANNING", "DOWN"}
              /\ v.state # w.state => o = State(v.state)
              /\ v.rssi = w.rssi /\ v.retry \in {w.retry, 0}
              /\ o # SignalMgmt => v.sem = w.sem
              /\ o = SignalMgmt => v.sem \in {w.sem, w.sem + 1} /\ v.state = w.state
  <1>1. ASSUME o \in MgmtStatements
        PROVE  /\ v.state \in {w.state, "AUTHENTICATING", "FAILED"}
               /\ v.state = "AUTHENTICATING" => v.state = w.state \/ o = State("AUTHENTICATING")
               /\ v.rssi = w.rssi /\ v.sem = w.sem
    <2>1. o # Set("rssi", -50) /\ o # SignalMgmt
      BY <1>1, Kinds DEF MgmtStatements, Common
    <2>2. ASSUME NEW x, o = State(x) PROVE x \in {"AUTHENTICATING", "FAILED"}
      BY <1>1, <2>2, Kinds DEF MgmtStatements, Common
    <2>3. QED
      BY <2>1, <2>2 DEF Changes
  <1>2. ASSUME o \in RxStatements
        PROVE  /\ v.state \in {w.state, "ASSOCIATING", "ASSOCIATED", "FAILED"}
               /\ v.state # w.state => o = State(v.state)
               /\ v.sem = w.sem /\ v.retry \in {w.retry, 0}
               /\ v.rssi # w.rssi => o = Set("rssi", -50)
    <2>1. o.do # "retry" /\ o # SignalMgmt
      BY <1>2, Kinds DEF RxStatements, Common
    <2>2. ASSUME NEW x, o = State(x) PROVE x \in {"ASSOCIATING", "ASSOCIATED", "FAILED"}
      BY <1>2, <2>2, Kinds DEF RxStatements, Common
    <2>3. QED
      BY <2>1, <2>2 DEF Changes
  <1>3. ASSUME o \in ShellStatements
        PROVE  /\ v.state \in {w.state, "SCANNING", "DOWN"}
               /\ v.state # w.state => o = State(v.state)
               /\ v.rssi = w.rssi /\ v.retry \in {w.retry, 0}
               /\ o # SignalMgmt => v.sem = w.sem
               /\ o = SignalMgmt => v.sem \in {w.sem, w.sem + 1} /\ v.state = w.state
    <2>1. o.do # "retry" /\ o # Set("rssi", -50) /\ \A x : State(x) # SignalMgmt
      BY <1>3, Kinds DEF ShellStatements, Common
    <2>2. ASSUME NEW x, o = State(x) PROVE x \in {"SCANNING", "DOWN"}
      BY <1>3, <2>2, Kinds DEF ShellStatements, Common
    <2>3. QED
      BY <2>1, <2>2 DEF Changes
  <1>4. QED
    BY <1>1, <1>2, <1>3

LEMMA RingCommon ==
  ASSUME NEW h \in Ring
  PROVE  /\ {Fill(h), HandOver(h), Advance} \subseteq Common
         /\ \A o \in {Fill(h), HandOver(h), Advance} :
              o.do # "retry" /\ o # State("AUTHENTICATING")
  BY Kinds DEF Common

LEMMA MgmtExecutes ==
  ASSUME WifiInv, Execute("mgmt")
  PROVE  WifiInv'
  <1>1. PICK o : /\ Executes("mgmt", o, todo["mgmt"], todo'["mgmt"])
                 /\ w' \in Shared /\ Changes(o, w')
                 /\ todo'["rx"] = todo["rx"] /\ todo'["shell"] = todo["shell"]
                 /\ todo' \in [Threads -> Seq(Statements)]
                 /\ hw' \in {hw, "off"}
    BY ExecuteEffect DEF WifiInv, Threads
  <1>2. UNCHANGED <<frame, attempts, heard>> /\ todo["mgmt"] # <<>>
    BY DEF Execute, Idle
  <1>3. PICK h \in Ring :
          /\ Elems(todo'["mgmt"]) \subseteq Later(todo["mgmt"]) \union {Fill(h), HandOver(h), Advance}
          /\ Later(todo'["mgmt"]) \subseteq Later(todo["mgmt"]) \union {Fill(h), HandOver(h), Advance}
    BY <1>1 DEF Executes
  <1>4. o \in MgmtStatements /\ o \in Elems(todo["mgmt"])
    BY <1>1 DEF Executes, WifiInv, Types
  <1>5. /\ w'.state \in {w.state, "AUTHENTICATING", "FAILED"}
        /\ w'.rssi = w.rssi /\ w'.sem = w.sem
    BY <1>1, <1>4, ThreadChanges DEF WifiInv, Types
  <1>6. Elems(todo'["mgmt"]) \subseteq MgmtStatements
    BY <1>3, LaterInElems, RingCommon DEF WifiInv, Types, MgmtStatements
  <1>7. Types'
    BY <1>1, <1>2, <1>6 DEF WifiInv, Types
  <1>8. hw # "reset" /\ hw' # "reset" /\ attempts # 0
    BY <1>1, <1>2 DEF WifiInv, ResetInv, ScanInv, Threads
  <1>9. \A p \in Elems(todo'["mgmt"]) : p.do # "retry"
    BY <1>3, RingCommon DEF WifiInv, RetryInv
  <1>10. RetryInv'
    BY <1>9, LaterInElems DEF RetryInv
  <1>11. SignalInv'
    BY <1>1, <1>2, <1>5 DEF WifiInv, SignalInv
  <1>12. HeardInv'
    BY <1>1, <1>2, <1>5 DEF WifiInv, HeardInv
  <1>13. State("AUTHENTICATING") \in Elems(todo'["mgmt"]) => State("AUTHENTICATING") \in Elems(todo["mgmt"])
    BY <1>3, LaterInElems, RingCommon
  <1>14. ScanInv'
    BY <1>1, <1>2, <1>5, <1>8, <1>13 DEF WifiInv, ScanInv, Knows
  <1>15. QED
    BY <1>7, <1>8, <1>10, <1>11, <1>12, <1>14 DEF WifiInv, ResetInv

LEMMA RxExecutes ==
  ASSUME WifiInv, Execute("rx")
  PROVE  WifiInv'
  <1>1. PICK o : /\ Executes("rx", o, todo["rx"], todo'["rx"])
                 /\ w' \in Shared /\ Changes(o, w')
                 /\ todo'["mgmt"] = todo["mgmt"] /\ todo'["shell"] = todo["shell"]
                 /\ todo' \in [Threads -> Seq(Statements)]
                 /\ hw' \in {hw, "off"}
    BY ExecuteEffect DEF WifiInv, Threads
  <1>2. UNCHANGED <<frame, attempts, heard>> /\ todo["rx"] # <<>>
    BY DEF Execute, Idle
  <1>3. /\ Elems(todo'["rx"]) = Later(todo["rx"]) /\ o \in Elems(todo["rx"])
        /\ Later(todo'["rx"]) \subseteq Later(todo["rx"])
        /\ Elems(todo'["rx"]) \subseteq Elems(todo["rx"])
    BY <1>1, LaterInElems DEF Executes
  <1>4. o \in RxStatements
    BY <1>3 DEF WifiInv, Types
  <1>5. /\ w'.state \in {w.state, "ASSOCIATING", "ASSOCIATED", "FAILED"}
        /\ w'.state # w.state => o = State(w'.state)
        /\ w'.sem = w.sem /\ w'.retry \in {w.retry, 0}
        /\ w'.rssi # w.rssi => o = Set("rssi", -50)
    BY <1>1, <1>4, ThreadChanges DEF WifiInv, Types
  <1>6. Types'
    BY <1>1, <1>2, <1>3 DEF WifiInv, Types
  <1>7. hw # "reset" /\ hw' # "reset"
    BY <1>1, <1>2 DEF WifiInv, ResetInv, Threads
  <1>8. RetryInv'
    BY <1>1, <1>5, WifiAssumption DEF WifiInv, RetryInv, Types, Shared
  <1>9. SignalInv'
    BY <1>1, <1>2, <1>5 DEF WifiInv, SignalInv
  <1>10. HeardInv'
    <2>1. CASE w'.state = w.state
      BY <1>2, <1>3, <2>1 DEF WifiInv, HeardInv
    <2>2. CASE w'.state = "FAILED"
      BY <1>2, <1>3, <2>2 DEF WifiInv, HeardInv
    <2>3. CASE o = State("ASSOCIATING") /\ w'.state = "ASSOCIATING"
      BY <1>2, <1>3, <2>3 DEF WifiInv, HeardInv
    <2>4. CASE o = State("ASSOCIATED") /\ w'.state = "ASSOCIATED"
      BY <1>2, <1>3, <2>4 DEF WifiInv, HeardInv
    <2>5. QED
      BY <1>5, <2>1, <2>2, <2>3, <2>4
  <1>11. attempts = 0 => w'.state \notin InProgress /\ w'.rssi = 0
    <2>1. ASSUME attempts = 0
          PROVE  w.rssi = 0 /\ w.state \notin InProgress /\ o \in {State("FAILED"), NoDeadline, NoRetries}
      BY <1>3, <2>1 DEF WifiInv, ScanInv
    <2>2. ASSUME attempts = 0
          PROVE  o # Set("rssi", -50) /\ o # State("ASSOCIATING")
      BY <2>1, <2>2, Kinds
    <2>3. QED
      BY <1>5, <2>1, <2>2 DEF InProgress
  <1>12. ScanInv'
    BY <1>1, <1>2, <1>3, <1>5, <1>11 DEF WifiInv, ScanInv, Knows
  <1>13. QED
    BY <1>6, <1>7, <1>8, <1>9, <1>10, <1>12 DEF WifiInv, ResetInv

LEMMA ShellExecutes ==
  ASSUME WifiInv, Execute("shell")
  PROVE  WifiInv'
  <1>1. PICK o : /\ Executes("shell", o, todo["shell"], todo'["shell"])
                 /\ w' \in Shared /\ Changes(o, w')
                 /\ todo'["mgmt"] = todo["mgmt"] /\ todo'["rx"] = todo["rx"]
                 /\ todo' \in [Threads -> Seq(Statements)]
                 /\ hw' \in {hw, "off"}
    BY ExecuteEffect DEF WifiInv, Threads
  <1>2. UNCHANGED <<frame, attempts, heard>> /\ todo["shell"] # <<>>
    BY DEF Execute, Idle
  <1>3. /\ Elems(todo'["shell"]) = Later(todo["shell"]) /\ o \in Elems(todo["shell"])
        /\ Elems(todo'["shell"]) \subseteq Elems(todo["shell"])
        /\ SignalLast(todo'["shell"])
        /\ (o = SignalMgmt => Elems(todo'["shell"]) = {})
    BY <1>1, LaterInElems DEF Executes, WifiInv, SignalInv
  <1>4. o \in ShellStatements
    BY <1>3 DEF WifiInv, Types
  <1>5. /\ w'.state \in {w.state, "SCANNING", "DOWN"}
        /\ w'.state # w.state => o = State(w'.state)
        /\ w'.rssi = w.rssi /\ w'.retry \in {w.retry, 0}
        /\ o # SignalMgmt => w'.sem = w.sem
        /\ o = SignalMgmt => w'.sem \in {w.sem, w.sem + 1} /\ w'.state = w.state
    BY <1>1, <1>4, ThreadChanges DEF WifiInv, Types
  <1>6. Types'
    BY <1>1, <1>2, <1>3 DEF WifiInv, Types
  <1>7. hw # "reset" /\ hw' # "reset"
    BY <1>1, <1>2 DEF WifiInv, ResetInv, Threads
  <1>8. RetryInv'
    BY <1>1, <1>5, WifiAssumption DEF WifiInv, RetryInv, Types, Shared
  <1>9. SignalInv'
    <2>1. w.sem \in Nat /\ attempts \in Nat /\ MaxSignals \in Nat
      BY WifiAssumption DEF WifiInv, Types, Shared
    <2>2. CASE o = SignalMgmt
      BY <1>2, <1>3, <1>5, <2>1, <2>2 DEF WifiInv, SignalInv
    <2>3. CASE o # SignalMgmt
      BY <1>2, <1>3, <1>5, <2>1, <2>3 DEF WifiInv, SignalInv
    <2>4. QED
      BY <2>2, <2>3
  <1>10. HeardInv'
    BY <1>1, <1>2, <1>5 DEF WifiInv, HeardInv
  <1>11. attempts = 0 => w'.state \notin InProgress
    <2>1. ASSUME attempts = 0
          PROVE  w.state \notin InProgress /\ o \in {State("DOWN"), DisableMac}
      BY <1>3, <2>1 DEF WifiInv, ScanInv
    <2>2. ASSUME attempts = 0
          PROVE  o # State("SCANNING")
      BY <2>1, <2>2, Kinds
    <2>3. QED
      BY <1>5, <2>1, <2>2 DEF InProgress
  <1>12. ScanInv'
    BY <1>1, <1>2, <1>3, <1>5, <1>11 DEF WifiInv, ScanInv, Knows
  <1>13. QED
    BY <1>6, <1>7, <1>8, <1>9, <1>10, <1>12 DEF WifiInv, ResetInv

-----------------------------------------------------------------------------
(* The decisions and what happens around the threads. *)

\* Steps that leave the statements alone and only change what no invariant
\* about them needs: the state is kept, and the signals allowed for.
LEMMA OutsideStep ==
  ASSUME WifiInv, w' \in Shared, UNCHANGED <<todo, hw, attempts, heard>>,
         frame' \in Frames \union {"none"}, hw = "reset" => frame' = "none",
         w'.state = w.state, w'.rssi = w.rssi, w'.retry = w.retry,
         w'.sem = w.sem \/ (hw # "reset" /\ w.sem < MaxSignals /\ w'.sem = w.sem + 1)
  PROVE  WifiInv'
  <1>1. Types'
    BY DEF WifiInv, Types
  <1>2. ResetInv'
    BY DEF WifiInv, ResetInv
  <1>3. RetryInv'
    BY DEF WifiInv, RetryInv
  <1>4. SignalInv'
    <2>1. w.sem \in Nat /\ attempts \in Nat /\ MaxSignals \in Nat
      BY WifiAssumption DEF WifiInv, Types, Shared
    <2>2. QED
      BY <2>1 DEF WifiInv, SignalInv
  <1>5. HeardInv'
    BY DEF WifiInv, HeardInv
  <1>6. ScanInv'
    BY DEF WifiInv, ScanInv, Knows
  <1>7. QED
    BY <1>1, <1>2, <1>3, <1>4, <1>5, <1>6 DEF WifiInv

LEMMA InitStep ==
  ASSUME WifiInv, wifi_init \/ wifi_init_done
  PROVE  WifiInv'
  <1>1. /\ hw = "reset" /\ UNCHANGED <<todo, frame, attempts, heard>>
        /\ todo = [t \in Threads |-> <<>>] /\ frame = "none" /\ w.sem = 0
        /\ todo["mgmt"] = <<>> /\ todo["rx"] = <<>> /\ todo["shell"] = <<>>
    BY DEF wifi_init, wifi_init_done, WifiInv, ResetInv, Threads
  <1>2. PICK x \in {"INIT", "FAILED", "ASSOCIATED"} : w' = [w EXCEPT !.state = x]
    BY DEF wifi_init, wifi_init_done
  <1>3. hw' \in {"on", "off"} \/ (hw' = "reset" /\ x = "INIT")
    BY <1>1, <1>2 DEF wifi_init, wifi_init_done, WifiInv, Types, Shared
  <1>4. /\ w' \in Shared /\ w'.state = x /\ w'.rssi = w.rssi /\ w'.retry = w.retry
        /\ w'.sem = w.sem
    BY <1>2 DEF WifiInv, Types, Shared, States
  <1>5. Types'
    BY <1>1, <1>3, <1>4 DEF WifiInv, Types
  <1>6. ResetInv'
    BY <1>1, <1>3, <1>4 DEF ResetInv
  <1>7. RetryInv'
    BY <1>1, NoElems DEF RetryInv
  <1>8. SignalInv'
    BY <1>1, <1>4, NoElems DEF WifiInv, SignalInv
  <1>9. HeardInv'
    BY <1>1, <1>4, NoElems DEF HeardInv
  <1>10. ScanInv'
    BY <1>1, <1>4 DEF WifiInv, ScanInv, Knows, InProgress
  <1>11. QED
    BY <1>5, <1>6, <1>7, <1>8, <1>9, <1>10 DEF WifiInv

\* A new attempt starts only once the receive task has reported the last one.
LEMMA AssocStep ==
  ASSUME WifiInv, wifi_assoc
  PROVE  WifiInv'
  <1>1. PICK s : s = <<NoRetries, State("SCANNING"), wifi_set_assoc_deadline, SignalMgmt>>
    OBVIOUS
  <1>2. /\ w.state = "ASSOCIATED" /\ attempts < MaxAttempts /\ attempts' = attempts + 1
        /\ heard' = {} /\ UNCHANGED <<w, frame, hw>>
        /\ todo' = [todo EXCEPT !["shell"] = s] /\ hw # "reset"
        /\ todo["shell"] = <<>>
    BY <1>1 DEF wifi_assoc, Choose, Idle, WifiInv, ResetInv
  <1>3. /\ s \in Seq(Statements) /\ s # <<>>
        /\ Elems(s) = {NoRetries, State("SCANNING"), wifi_set_assoc_deadline, SignalMgmt}
    BY <1>1, CommonStatements, Tuple4
  <1>4. /\ todo' \in [Threads -> Seq(Statements)] /\ todo'["shell"] = s
        /\ todo'["mgmt"] = todo["mgmt"] /\ todo'["rx"] = todo["rx"]
    BY <1>2, <1>3 DEF WifiInv, Types, Threads
  <1>5. attempts \in Nat /\ attempts' \in 1 .. MaxAttempts /\ MaxSignals \in Nat /\ w.sem \in Nat
    BY <1>2, WifiAssumption DEF WifiInv, Types, Shared
  <1>6. Elems(s) \subseteq ShellStatements
    BY <1>3 DEF ShellStatements, Common
  <1>7. Types'
    BY <1>2, <1>4, <1>5, <1>6 DEF WifiInv, Types
  <1>8. RetryInv'
    BY <1>2, <1>4 DEF WifiInv, RetryInv
  <1>9. SignalLast(s)
    BY <1>1, Kinds DEF SignalLast
  <1>10. SignalInv'
    BY <1>2, <1>4, <1>5, <1>9 DEF WifiInv, SignalInv
  <1>11. HeardInv'
    BY <1>2, <1>4 DEF WifiInv, HeardInv
  <1>12. ScanInv'
    <2>1. ASSUME attempts' = 1 PROVE ~Knows'
      <3>1. attempts = 0
        BY <1>2, <1>5, <2>1
      <3>2. w'.rssi = 0 /\ todo'["mgmt"] = <<>> /\ Elems(todo'["rx"]) \subseteq {State("FAILED"), NoDeadline, NoRetries}
        BY <1>2, <1>4, <3>1 DEF WifiInv, ScanInv
      <3>3. Set("rssi", -50) \notin {State("FAILED"), NoDeadline, NoRetries}
        BY Kinds
      <3>4. QED
        BY <3>2, <3>3, NoElems DEF Knows
    <2>2. QED
      BY <1>5, <2>1 DEF ScanInv
  <1>13. QED
    BY <1>2, <1>7, <1>8, <1>10, <1>11, <1>12 DEF WifiInv, ResetInv

LEMMA StopStep ==
  ASSUME WifiInv, wifi_stop
  PROVE  WifiInv'
  <1>1. PICK s : s = <<DisableMac, State("DOWN")>>
    OBVIOUS
  <1>2. /\ hw # "reset" /\ UNCHANGED <<w, frame, hw, attempts, heard>>
        /\ todo' = [todo EXCEPT !["shell"] = s]
    BY <1>1 DEF wifi_stop, Choose
  <1>3. s \in Seq(Statements) /\ Elems(s) = {DisableMac, State("DOWN")}
    BY <1>1, CommonStatements, Tuple2
  <1>4. /\ todo' \in [Threads -> Seq(Statements)] /\ todo'["shell"] = s
        /\ todo'["mgmt"] = todo["mgmt"] /\ todo'["rx"] = todo["rx"]
    BY <1>2, <1>3 DEF WifiInv, Types, Threads
  <1>5. Elems(s) \subseteq ShellStatements /\ SignalMgmt \notin Elems(s)
    BY <1>3, Kinds DEF ShellStatements, Common
  <1>6. Types'
    BY <1>2, <1>4, <1>5 DEF WifiInv, Types
  <1>7. RetryInv'
    BY <1>2, <1>4 DEF WifiInv, RetryInv
  <1>8. SignalInv'
    BY <1>2, <1>4, <1>5 DEF WifiInv, SignalInv, SignalLast, Elems
  <1>9. HeardInv'
    BY <1>2, <1>4 DEF WifiInv, HeardInv
  <1>10. ScanInv'
    BY <1>2, <1>3, <1>4 DEF WifiInv, ScanInv, Knows
  <1>11. QED
    BY <1>2, <1>6, <1>7, <1>8, <1>9, <1>10 DEF WifiInv, ResetInv

LEMMA WakeStep ==
  ASSUME WifiInv, MgmtWakes
  PROVE  WifiInv'
  <1>1. PICK s : s = MgmtPass
    OBVIOUS
  <1>2. /\ w.sem > 0 /\ w' = [w EXCEPT !.sem = @ - 1]
        /\ UNCHANGED <<frame, hw, attempts, heard>>
        /\ todo' = [todo EXCEPT !["mgmt"] = s]
    BY <1>1 DEF MgmtWakes, Choose
  <1>3. MgmtChoice(s)
    BY <1>1, MgmtPassChoice DEF WifiInv, Types
  <1>4. /\ w' \in Shared /\ w'.state = w.state /\ w'.rssi = w.rssi /\ w'.retry = w.retry
        /\ w'.sem = w.sem - 1 /\ w.sem \in Nat
    BY <1>2 DEF WifiInv, Types, Shared
  <1>5. /\ todo' \in [Threads -> Seq(Statements)] /\ todo'["mgmt"] = s
        /\ todo'["shell"] = todo["shell"] /\ todo'["rx"] = todo["rx"] /\ hw # "reset"
    BY <1>2, <1>3, <1>4 DEF WifiInv, Types, Threads, MgmtChoice, ResetInv
  <1>6. Types'
    BY <1>2, <1>3, <1>4, <1>5 DEF WifiInv, Types, MgmtChoice
  <1>7. RetryInv'
    BY <1>3, <1>4, <1>5 DEF RetryInv, MgmtChoice
  <1>8. SignalInv'
    <2>1. attempts \in Nat /\ MaxSignals \in Nat
      BY WifiAssumption DEF WifiInv, Types
    <2>2. QED
      BY <1>2, <1>4, <1>5, <2>1 DEF WifiInv, SignalInv
  <1>9. HeardInv'
    BY <1>2, <1>4, <1>5 DEF WifiInv, HeardInv
  <1>10. ScanInv'
    <2>1. Knows' => Knows
      BY <1>3, <1>4, <1>5 DEF Knows, MgmtChoice
    <2>2. QED
      BY <1>2, <1>3, <1>4, <1>5, <2>1 DEF WifiInv, ScanInv, MgmtChoice
  <1>11. QED
    BY <1>2, <1>5, <1>6, <1>7, <1>8, <1>9, <1>10 DEF WifiInv, ResetInv

LEMMA HandleStep ==
  ASSUME WifiInv, RxHandles
  PROVE  WifiInv'
  <1>1. PICK s : s = wifi_process_mgmt_frame(frame)
    OBVIOUS
  <1>2. /\ frame # "none" /\ frame' = "none" /\ UNCHANGED <<w, hw, attempts>>
        /\ todo' = [todo EXCEPT !["rx"] = s]
        /\ heard' = IF s = <<>> THEN heard ELSE heard \union {frame}
    BY <1>1 DEF RxHandles, Choose
  <1>3. RxChoice(frame, s)
    BY <1>1, ProcessChoice DEF WifiInv, Types
  <1>4. /\ todo' \in [Threads -> Seq(Statements)] /\ todo'["rx"] = s
        /\ todo'["shell"] = todo["shell"] /\ todo'["mgmt"] = todo["mgmt"] /\ hw # "reset"
    BY <1>2, <1>3 DEF WifiInv, Types, Threads, RxChoice, ResetInv
  <1>5. heard \subseteq heard' /\ heard' \subseteq Frames /\ (Elems(s) # {} => frame \in heard')
    BY <1>2, NoElems DEF WifiInv, Types
  <1>6. Types'
    BY <1>2, <1>3, <1>4, <1>5 DEF WifiInv, Types, RxChoice
  <1>7. RetryInv'
    BY <1>2, <1>4 DEF WifiInv, RetryInv
  <1>8. SignalInv'
    BY <1>2, <1>4 DEF WifiInv, SignalInv
  <1>9. HeardInv'
    BY <1>2, <1>3, <1>4, <1>5 DEF WifiInv, HeardInv, RxChoice
  <1>10. ScanInv'
    <2>1. Knows' => Knows \/ "probe_match" \in heard'
      BY <1>2, <1>3, <1>4, <1>5 DEF Knows, RxChoice
    <2>2. QED
      BY <1>2, <1>3, <1>4, <1>5, <2>1 DEF WifiInv, ScanInv, RxChoice
  <1>11. QED
    BY <1>2, <1>4, <1>6, <1>7, <1>8, <1>9, <1>10 DEF WifiInv, ResetInv

LEMMA NextWifiInv ==
  ASSUME WifiInv, [WifiNext]_wifivars
  PROVE  WifiInv'
  <1>0. w \in Shared /\ frame \in Frames \union {"none"} /\ (hw = "reset" => frame = "none")
    BY DEF WifiInv, Types, ResetInv
  <1>1. CASE wifi_init \/ wifi_init_done
    BY <1>1, InitStep
  <1>2. CASE wifi_assoc
    BY <1>2, AssocStep
  <1>3. CASE wifi_stop
    BY <1>3, StopStep
  <1>4. CASE MgmtWakes
    BY <1>4, WakeStep
  <1>5. CASE RxHandles
    BY <1>5, HandleStep
  <1>6. CASE Receive
    <2>1. PICK f \in Frames : wifi_isr(f)
      BY <1>6 DEF Receive
    <2>2. /\ w' \in Shared /\ w'.state = w.state /\ w'.rssi = w.rssi /\ w'.retry = w.retry
          /\ w'.sem = w.sem + 1 /\ w.sem < MaxSignals
      BY <1>0, <2>1 DEF wifi_isr, Shared
    <2>3. UNCHANGED <<todo, hw, attempts, heard>> /\ frame' = f /\ hw # "reset"
      BY <2>1 DEF wifi_isr
    <2>4. QED
      BY <2>2, <2>3, OutsideStep
  <1>7. CASE Elapse
    <2>1. /\ w' \in Shared /\ w'.state = w.state /\ w'.rssi = w.rssi /\ w'.retry = w.retry
          /\ w'.sem = w.sem
      BY <1>0, <1>7 DEF Elapse, Shared
    <2>2. UNCHANGED <<todo, frame, hw, attempts, heard>>
      BY <1>7 DEF Elapse
    <2>3. QED
      BY <1>0, <2>1, <2>2, OutsideStep
  <1>8. ASSUME NEW d \in Ring, MacSends(d)
        PROVE  WifiInv'
    <2>1. /\ w' \in Shared /\ w'.state = w.state /\ w'.rssi = w.rssi /\ w'.retry = w.retry
          /\ w'.sem = w.sem
      BY <1>0, <1>8 DEF MacSends, Shared
    <2>2. UNCHANGED <<todo, frame, hw, attempts, heard>>
      BY <1>8 DEF MacSends
    <2>3. QED
      BY <1>0, <2>1, <2>2, OutsideStep
  <1>9. ASSUME NEW t \in Threads, Execute(t)
        PROVE  WifiInv'
    BY <1>9, MgmtExecutes, RxExecutes, ShellExecutes DEF Threads
  <1>10. CASE UNCHANGED wifivars
    BY <1>0, <1>10, OutsideStep DEF wifivars
  <1>11. QED
    BY <1>1, <1>2, <1>3, <1>4, <1>5, <1>6, <1>7, <1>8, <1>9, <1>10 DEF WifiNext, Ring

-----------------------------------------------------------------------------
\* The invariant of the association state machine, for all retry limits, ring
\* sizes and numbers of attempts.
THEOREM WifiInvariant == WifiSpec => []WifiInv
  <1>1. WifiInit => WifiInv
    <2>1. SUFFICES ASSUME WifiInit PROVE WifiInv
      OBVIOUS
    <2>2. /\ w \in Shared /\ w.state = "DOWN" /\ w.rssi = 0 /\ w.sem = 0
          /\ todo = [t \in Threads |-> <<>>] /\ frame = "none" /\ hw = "reset"
          /\ attempts = 0 /\ heard = {}
      BY <2>1, WifiAssumption DEF WifiInit, Shared, Ring, States
    <2>3. todo["mgmt"] = <<>> /\ todo["rx"] = <<>> /\ todo["shell"] = <<>>
      BY <2>2 DEF Threads
    <2>4. Types
      BY <2>2, <2>3, NoElems, WifiAssumption, EmptySeq DEF Types
    <2>5. ResetInv /\ RetryInv /\ HeardInv
      BY <2>2, <2>3, NoElems DEF ResetInv, RetryInv, HeardInv
    <2>6. SignalInv
      BY <2>2, <2>3, NoElems, WifiAssumption DEF SignalInv
    <2>7. ScanInv
      BY <2>2, <2>3, NoElems DEF ScanInv, InProgress
    <2>8. QED
      BY <2>4, <2>5, <2>6, <2>7 DEF WifiInv
  <1>2. QED
    BY <1>1, NextWifiInv, PTL DEF WifiSpec

\* wifi_retry_count never passes WIFI_MAX_RETRIES, the head stays in the
\* management ring and the semaphore's count is bounded.
THEOREM WifiTypes == WifiSpec => []WifiTypeOK
  <1>1. WifiInv => WifiTypeOK
    <2>1. SUFFICES ASSUME WifiInv PROVE WifiTypeOK
      OBVIOUS
    <2>2. w.sem \in 0 .. MaxSignals + MaxAttempts
      BY <2>1, WifiAssumption DEF WifiInv, Types, SignalInv, Shared
    <2>3. QED
      BY <2>1, <2>2 DEF WifiInv, Types, Shared, WifiTypeOK, Ring
  <1>2. QED
    BY <1>1, WifiInvariant, PTL

\* A step that reports an association, or goes from scanning to authenticating
\* in the first attempt, has been heard of.
LEMMA StepHeard ==
  ASSUME WifiInv, [WifiNext]_wifivars
  PROVE  /\ w'.state = "ASSOCIATED" /\ w.state # "ASSOCIATED" /\ hw # "reset" =>
              {"auth_ok", "assoc_ok"} \subseteq heard
         /\ w'.state = "AUTHENTICATING" /\ w.state = "SCANNING" /\ attempts = 1 =>
              "probe_match" \in heard
  <1>0. w \in Shared
    BY DEF WifiInv, Types
  <1>1. CASE w'.state = w.state
    BY <1>1
  <1>2. CASE wifi_init \/ wifi_init_done
    BY <1>0, <1>2 DEF wifi_init, wifi_init_done, Shared
  <1>3. ASSUME NEW t \in Threads, Execute(t)
        PROVE  /\ w'.state = "ASSOCIATED" /\ w.state # "ASSOCIATED" =>
                    {"auth_ok", "assoc_ok"} \subseteq heard
               /\ w'.state = "AUTHENTICATING" /\ w.state = "SCANNING" /\ attempts = 1 =>
                    "probe_match" \in heard
    <2>1. PICK o : o \in Elems(todo[t]) /\ Changes(o, w')
      BY <1>3, ExecuteEffect DEF WifiInv, Executes
    <2>2. CASE t = "mgmt"
      <3>1. o \in MgmtStatements /\ o \in Elems(todo["mgmt"])
        BY <2>1, <2>2 DEF WifiInv, Types
      <3>2. /\ w'.state \in {w.state, "AUTHENTICATING", "FAILED"}
            /\ w'.state = "AUTHENTICATING" => w'.state = w.state \/ o = State("AUTHENTICATING")
        BY <1>0, <2>1, <3>1, ThreadChanges
      <3>3. QED
        BY <3>1, <3>2 DEF WifiInv, ScanInv, Knows
    <2>3. CASE t = "rx"
      <3>1. o \in RxStatements /\ o \in Elems(todo["rx"])
        BY <2>1, <2>3 DEF WifiInv, Types
      <3>2. /\ w'.state \in {w.state, "ASSOCIATING", "ASSOCIATED", "FAILED"}
            /\ w'.state # w.state => o = State(w'.state)
        BY <1>0, <2>1, <3>1, ThreadChanges
      <3>3. QED
        BY <3>1, <3>2 DEF WifiInv, HeardInv
    <2>4. CASE t = "shell"
      <3>1. o \in ShellStatements
        BY <2>1, <2>4 DEF WifiInv, Types
      <3>2. w'.state \in {w.state, "SCANNING", "DOWN"}
        BY <1>0, <2>1, <3>1, ThreadChanges
      <3>3. QED
        BY <3>2
    <2>5. QED
      BY <2>2, <2>3, <2>4 DEF Threads
  <1>4. CASE wifi_assoc \/ wifi_stop \/ RxHandles \/ UNCHANGED wifivars
    BY <1>1, <1>4 DEF wifi_assoc, wifi_stop, RxHandles, wifivars
  <1>5. CASE MgmtWakes \/ Receive \/ Elapse
    BY <1>0, <1>1, <1>5 DEF MgmtWakes, Receive, wifi_isr, Elapse, Shared
  <1>6. ASSUME NEW d \in Ring, MacSends(d) PROVE w'.state = w.state
    BY <1>0, <1>6 DEF MacSends, Shared
  <1>7. QED
    BY <1>1, <1>2, <1>3, <1>4, <1>5, <1>6 DEF WifiNext, Ring

\* An association is reported only when this attempt's authentication and
\* association were both accepted, and the first attempt authenticates only
\* with a network its scan has found, however the three threads interleave.
THEOREM AttemptGoesByAnswers == WifiSpec => ProgressOnlyIfHeard
  <1>1. WifiInv /\ [WifiNext]_wifivars =>
          [/\ w'.state = "ASSOCIATED" /\ w.state # "ASSOCIATED" /\ hw # "reset" =>
                {"auth_ok", "assoc_ok"} \subseteq heard
           /\ w'.state = "AUTHENTICATING" /\ w.state = "SCANNING" /\ attempts = 1 =>
                "probe_match" \in heard]_wifivars
    BY StepHeard
  <1>2. QED
    BY <1>1, WifiInvariant, PTL DEF WifiSpec, ProgressOnlyIfHeard

-----------------------------------------------------------------------------
(* The deadline of a scan. *)

\* wifi_assoc sets the deadline after the state.
SetsAfter(s) ==
  \A i \in 1 .. Len(s) : s[i] = State("SCANNING") =>
    \E j \in 1 .. Len(s) : j > i /\ s[j] = wifi_set_assoc_deadline

\* While a scan goes on that began with both tasks idle, the receive task does
\* not clear the deadline, and the management task only after it has ended the
\* scan.
DeadlineInv ==
  /\ NoDeadline \notin Elems(todo["shell"])
  /\ SetsAfter(todo["shell"])
  /\ w.state = "SCANNING" /\ late = {} =>
       /\ NoDeadline \notin Elems(todo["rx"])
       /\ NoDeadline \in Elems(todo["mgmt"]) => todo["mgmt"] = Fail
       /\ w.deadline = "none" => wifi_set_assoc_deadline \in Elems(todo["shell"])

\* The statement executed, as far as state and deadline go.
StateAndDeadline(o, v) ==
  /\ v.state = w.state \/ o = State(v.state)
  /\ \A x : o = State(x) => v.state = x
  /\ o = wifi_set_assoc_deadline => v.deadline = "pending"
  /\ o \notin {NoDeadline, wifi_set_assoc_deadline} => v.deadline = w.deadline

LEMMA EffectDeadline ==
  ASSUME w \in Shared, NEW o \in Statements, NEW v \in Effect(o)
  PROVE  StateAndDeadline(o, v)
  <1>1. CASE o.do = "set"
    <2>1. PICK f, x : o = Set(f, x) /\ f \in {"state", "rssi", "retry", "deadline"}
                      /\ (f = "deadline" => o \in {NoDeadline, wifi_set_assoc_deadline})
      BY <1>1, Kinds DEF Statements, MgmtStatements, RxStatements, ShellStatements, Common,
                         State, NoDeadline, wifi_set_assoc_deadline, NoRetries
    <2>2. v = [w EXCEPT ![f] = x]
      BY <2>1 DEF Effect, Set
    <2>3. CASE f = "state"
      <3>1. v.state = x /\ v.deadline = w.deadline /\ o = State(x)
        BY <2>1, <2>2, <2>3 DEF Shared, State
      <3>2. ASSUME NEW y, o = State(y) PROVE y = x
        <4>1. State(x).value = x /\ State(y).value = y
          BY Kinds
        <4>2. QED
          BY <3>1, <3>2, <4>1
      <3>3. o # wifi_set_assoc_deadline
        BY <3>1, Kinds
      <3>4. QED
        BY <3>1, <3>2, <3>3 DEF StateAndDeadline
    <2>4. CASE f = "deadline"
      <3>1. v.state = w.state /\ v.deadline = x
        BY <2>2, <2>4 DEF Shared
      <3>2. o.value = x /\ o.field = "deadline"
        BY <2>1, <2>4 DEF Set
      <3>3. (\A y : o # State(y)) /\ (o = wifi_set_assoc_deadline => x = "pending")
        BY <3>2, Kinds
      <3>4. QED
        BY <2>1, <2>4, <3>1, <3>3 DEF StateAndDeadline
    <2>5. CASE f \in {"rssi", "retry"}
      <3>1. v.state = w.state /\ v.deadline = w.deadline
        BY <2>2, <2>5 DEF Shared
      <3>2. o.field \in {"rssi", "retry"}
        BY <2>1, <2>5 DEF Set
      <3>3. (\A y : o # State(y)) /\ o # wifi_set_assoc_deadline
        BY <3>2, Kinds
      <3>4. QED
        BY <3>1, <3>3 DEF StateAndDeadline
    <2>6. QED
      BY <2>1, <2>3, <2>4, <2>5
  <1>2. CASE o.do # "set"
    <2>1. v.state = w.state /\ v.deadline = w.deadline
      <3>1. CASE o.do = "retry"
        BY <3>1 DEF Effect, Shared
      <3>2. CASE o.do = "own"
        BY <3>2 DEF Effect, Shared
      <3>3. CASE o.do = "advance"
        BY <3>3 DEF Effect, Shared
      <3>4. CASE o.do = "signal"
        BY <3>4 DEF Effect, Shared
      <3>5. CASE o.do \notin {"set", "retry", "own", "advance", "signal"}
        BY <3>5 DEF Effect
      <3>6. QED
        BY <1>2, <3>1, <3>2, <3>3, <3>4, <3>5
    <2>2. (\A y : o # State(y)) /\ o # wifi_set_assoc_deadline
      BY <1>2, Kinds
    <2>3. QED
      BY <2>1, <2>2 DEF StateAndDeadline
  <1>3. QED
    BY <1>1, <1>2

\* What a thread executes, and what it has left.
LEMMA ExecuteDeadline ==
  ASSUME Types, RetryInv, NEW t \in Threads, Execute(t)
  PROVE  \E o : /\ o = Head(todo[t]) /\ o \in Elems(todo[t]) /\ todo[t] # <<>>
                /\ StateAndDeadline(o, w')
                /\ Elems(todo'[t]) \subseteq Later(todo[t]) \union (Common \ {NoDeadline})
                /\ t # "mgmt" => todo'[t] = Tail(todo[t])
                /\ \A r \in Threads \ {t} : todo'[r] = todo[r]
                /\ late' = IF o = State("SCANNING") THEN {r \in Threads \ {t} : ~Idle(r)} ELSE late
  <1>1. PICK s : s = todo[t]
    OBVIOUS
  <1>2. PICK o : o = Head(s)
    OBVIOUS
  <1>3. PICK u : u = (IF o.do = "transmit" THEN Transmission ELSE <<>>)
    OBVIOUS
  <1>4. /\ s \in Seq(Statements) /\ s # <<>>
        /\ w' \in Effect(o) /\ todo' = [todo EXCEPT ![t] = u \o Tail(s)]
        /\ late' = IF o = State("SCANNING") THEN {r \in Threads \ {t} : ~Idle(r)} ELSE late
    BY <1>1, <1>2, <1>3 DEF Execute, Idle, Choose, Types
  <1>5. PICK h \in Ring : h = w.head
    BY DEF Types, Shared
  <1>6. u \in Seq(Statements) /\ Elems(u) \subseteq {Fill(h), HandOver(h), Advance}
    <2>1. CASE o.do = "transmit"
      BY <1>3, <1>5, <2>1, TransmissionStatements DEF Types
    <2>2. CASE o.do # "transmit"
      BY <1>3, <2>2, NoElems
    <2>3. QED
      BY <2>1, <2>2
  <1>7. /\ o \in Statements /\ o \in Elems(s) /\ Tail(s) \in Seq(Statements)
        /\ Elems(u \o Tail(s)) \subseteq Elems(u) \union Later(s)
    BY <1>2, <1>4, <1>6, Done
  <1>8. Elems(u) \subseteq Common \ {NoDeadline}
    BY <1>6, Kinds DEF Common
  <1>9. ASSUME t # "mgmt" PROVE u \o Tail(s) = Tail(s)
    <2>1. o.do # "transmit"
      <3>1. o \in RxStatements \union ShellStatements
        BY <1>1, <1>7, <1>9 DEF Types, Threads
      <3>2. QED
        BY <3>1, Kinds DEF RxStatements, ShellStatements, Common
    <2>2. QED
      BY <1>3, <1>7, <2>1, ConcatEmptySeq
  <1>10. StateAndDeadline(o, w')
    BY <1>4, <1>7, EffectDeadline DEF Types
  <1>11. todo'[t] = u \o Tail(s) /\ \A r \in Threads \ {t} : todo'[r] = todo[r]
    BY <1>4 DEF Types
  <1>12. QED
    BY <1>1, <1>2, <1>4, <1>7, <1>8, <1>9, <1>10, <1>11

LEMMA SetsAfterTail ==
  ASSUME NEW s \in Seq(Statements), s # <<>>, SetsAfter(s)
  PROVE  /\ SetsAfter(Tail(s))
         /\ Head(s) = State("SCANNING") => wifi_set_assoc_deadline \in Elems(Tail(s))
         /\ wifi_set_assoc_deadline \in Elems(s) =>
              Head(s) = wifi_set_assoc_deadline \/ wifi_set_assoc_deadline \in Elems(Tail(s))
  <1>1. /\ Tail(s) \in Seq(Statements) /\ Len(Tail(s)) = Len(s) - 1
        /\ \A i \in 1 .. Len(Tail(s)) : Tail(s)[i] = s[i + 1]
    BY HeadTailProperties
  <1>2. Len(s) \in Nat /\ Len(s) >= 1 /\ Head(s) = s[1]
    BY EmptySeq, LenProperties
  <1>3. ASSUME NEW j \in 1 .. Len(s), j > 1
        PROVE  j - 1 \in 1 .. Len(Tail(s)) /\ Tail(s)[j - 1] = s[j]
    BY <1>1, <1>2, <1>3
  <1>4. ASSUME NEW i \in 1 .. Len(Tail(s)), Tail(s)[i] = State("SCANNING")
        PROVE  \E j \in 1 .. Len(Tail(s)) : j > i /\ Tail(s)[j] = wifi_set_assoc_deadline
    <2>1. i + 1 \in 1 .. Len(s) /\ s[i + 1] = State("SCANNING")
      BY <1>1, <1>2, <1>4
    <2>2. PICK j \in 1 .. Len(s) : j > i + 1 /\ s[j] = wifi_set_assoc_deadline
      BY <2>1 DEF SetsAfter
    <2>3. PICK k : k = j - 1
      OBVIOUS
    <2>4. k \in 1 .. Len(Tail(s)) /\ k > i /\ Tail(s)[k] = wifi_set_assoc_deadline
      BY <1>3, <2>2, <2>3
    <2>5. QED
      BY <2>4
  <1>5. ASSUME Head(s) = State("SCANNING") PROVE wifi_set_assoc_deadline \in Elems(Tail(s))
    <2>1. PICK j \in 1 .. Len(s) : j > 1 /\ s[j] = wifi_set_assoc_deadline
      BY <1>2, <1>5 DEF SetsAfter
    <2>2. QED
      BY <1>3, <2>1 DEF Elems
  <1>6. ASSUME wifi_set_assoc_deadline \in Elems(s), Head(s) # wifi_set_assoc_deadline
        PROVE  wifi_set_assoc_deadline \in Elems(Tail(s))
    <2>1. PICK j \in 1 .. Len(s) : s[j] = wifi_set_assoc_deadline
      BY <1>6 DEF Elems
    <2>2. j > 1
      BY <1>2, <1>6, <2>1
    <2>3. QED
      BY <1>3, <2>1, <2>2 DEF Elems
  <1>7. QED
    BY <1>4, <1>5, <1>6 DEF SetsAfter

\* A pass of the management task clears a scan's deadline only by failing.
LEMMA MgmtPassDeadline ==
  ASSUME w.state = "SCANNING", w \in Shared, NoDeadline \in Elems(MgmtPass)
  PROVE  MgmtPass = Fail
  <1>1. CASE MgmtPass = Fail
    BY <1>1
  <1>2. CASE MgmtPass = BuildAndSend
    BY <1>2, SendCommon, Kinds
  <1>3. CASE MgmtPass = <<wifi_mgmt_transmit, State("AUTHENTICATING"), wifi_set_assoc_deadline>>
    <2>1. Elems(MgmtPass) = {wifi_mgmt_transmit, State("AUTHENTICATING"), wifi_set_assoc_deadline}
      BY <1>3, CommonStatements, Tuple3
    <2>2. QED
      BY <2>1, Kinds
  <1>4. CASE /\ w.retry < MAX_RETRIES
             /\ MgmtPass = <<CountRetry(w.retry), wifi_set_assoc_deadline, wifi_mgmt_transmit>>
    <2>1. w.retry \in Nat
      BY WifiAssumption DEF Shared
    <2>2. Elems(MgmtPass) = {CountRetry(w.retry), wifi_set_assoc_deadline, wifi_mgmt_transmit}
      BY <1>4, <2>1, CommonStatements, Tuple3
    <2>3. QED
      BY <2>2, Kinds
  <1>5. CASE MgmtPass = <<>>
    BY <1>5, NoElems
  <1>6. QED
    BY <1>1, <1>2, <1>3, <1>4, <1>5 DEF MgmtPass, RetryLeft

\* An answer heard during the scan clears nothing.
LEMMA ProcessDeadline ==
  ASSUME w.state = "SCANNING", NEW f
  PROVE  NoDeadline \notin Elems(wifi_process_mgmt_frame(f))
  <1>1. CASE wifi_process_mgmt_frame(f) = <<>>
    BY <1>1, NoElems
  <1>2. CASE wifi_process_mgmt_frame(f) = <<Set("rssi", -50)>>
    <2>1. Elems(wifi_process_mgmt_frame(f)) = {Set("rssi", -50)}
      BY <1>2, CommonStatements, Tuple1
    <2>2. QED
      BY <2>1, Kinds
  <1>3. QED
    BY <1>1, <1>2 DEF wifi_process_mgmt_frame, wifi_parse_probe_resp

LEMMA ShellKeepsDeadline ==
  ASSUME WifiInv, DeadlineInv, Execute("shell")
  PROVE  DeadlineInv'
  <1>1. PICK o : /\ o = Head(todo["shell"]) /\ o \in Elems(todo["shell"]) /\ todo["shell"] # <<>>
                 /\ StateAndDeadline(o, w')
                 /\ todo'["shell"] = Tail(todo["shell"])
                 /\ todo'["mgmt"] = todo["mgmt"] /\ todo'["rx"] = todo["rx"]
                 /\ late' = IF o = State("SCANNING") THEN {r \in Threads \ {"shell"} : ~Idle(r)} ELSE late
    BY ExecuteDeadline DEF WifiInv, Threads
  <1>2. todo["shell"] \in Seq(Statements)
    BY DEF WifiInv, Types, Threads
  <1>3. /\ SetsAfter(todo'["shell"])
        /\ o = State("SCANNING") => wifi_set_assoc_deadline \in Elems(todo'["shell"])
        /\ wifi_set_assoc_deadline \in Elems(todo["shell"]) =>
              o = wifi_set_assoc_deadline \/ wifi_set_assoc_deadline \in Elems(todo'["shell"])
    BY <1>1, <1>2, SetsAfterTail DEF DeadlineInv
  <1>4. Elems(todo'["shell"]) \subseteq Elems(todo["shell"])
    <2>1. Elems(Tail(todo["shell"])) = Later(todo["shell"])
      BY <1>1, <1>2, EmptySeq, Done
    <2>2. QED
      BY <1>1, <2>1, LaterInElems
  <1>5. NoDeadline \notin Elems(todo'["shell"]) /\ o # NoDeadline
    BY <1>1, <1>4 DEF DeadlineInv
  <1>6. CASE o = State("SCANNING")
    <2>1. ASSUME late' = {} PROVE todo'["mgmt"] = <<>> /\ todo'["rx"] = <<>>
      BY <1>1, <1>6, <2>1 DEF Idle, Threads
    <2>2. QED
      BY <1>3, <1>5, <1>6, <2>1, NoElems DEF DeadlineInv
  <1>7. CASE o # State("SCANNING")
    <2>1. late' = late /\ (w'.state = "SCANNING" => w.state = "SCANNING")
      BY <1>1, <1>7 DEF StateAndDeadline
    <2>2. w'.deadline = "none" =>
            w.deadline = "none" /\ o # wifi_set_assoc_deadline
      BY <1>1, <1>5 DEF StateAndDeadline
    <2>3. QED
      BY <1>1, <1>3, <1>5, <2>1, <2>2 DEF DeadlineInv
  <1>8. QED
    BY <1>6, <1>7

LEMMA TasksKeepDeadline ==
  ASSUME WifiInv, DeadlineInv, NEW t \in {"mgmt", "rx"}, Execute(t)
  PROVE  DeadlineInv'
  <1>1. PICK o : /\ o = Head(todo[t]) /\ o \in Elems(todo[t]) /\ todo[t] # <<>>
                 /\ StateAndDeadline(o, w')
                 /\ Elems(todo'[t]) \subseteq Later(todo[t]) \union (Common \ {NoDeadline})
                 /\ \A r \in Threads \ {t} : todo'[r] = todo[r]
                 /\ late' = IF o = State("SCANNING") THEN {r \in Threads \ {t} : ~Idle(r)} ELSE late
    BY ExecuteDeadline DEF WifiInv, Threads
  <1>2. o \in MgmtStatements \union RxStatements
    BY <1>1 DEF WifiInv, Types
  <1>3. o # State("SCANNING")
    BY <1>2, Kinds DEF MgmtStatements, RxStatements, Common
  <1>4. late' = late /\ (w'.state = "SCANNING" => w.state = "SCANNING")
    BY <1>1, <1>3 DEF StateAndDeadline
  <1>5. todo'["shell"] = todo["shell"]
    BY <1>1 DEF Threads
  <1>6. SUFFICES ASSUME w'.state = "SCANNING", late' = {}
                 PROVE  /\ NoDeadline \notin Elems(todo'["rx"])
                        /\ NoDeadline \in Elems(todo'["mgmt"]) => todo'["mgmt"] = Fail
                        /\ w'.deadline = "none" =>
                              wifi_set_assoc_deadline \in Elems(todo'["shell"])
    BY <1>5 DEF DeadlineInv
  <1>7. todo[t] # Fail
    <2>1. ASSUME todo[t] = Fail PROVE o = State("FAILED")
      BY <1>1, <2>1 DEF Fail
    <2>2. QED
      BY <1>1, <1>6, <2>1 DEF StateAndDeadline
  <1>8. NoDeadline \notin Elems(todo[t])
    BY <1>4, <1>6, <1>7 DEF DeadlineInv
  <1>9. NoDeadline \notin Elems(todo'[t]) /\ o # NoDeadline
    BY <1>1, <1>8, LaterInElems
  <1>10. w'.deadline = "none" => w.deadline = "none"
    BY <1>1, <1>9 DEF StateAndDeadline
  <1>11. QED
    BY <1>1, <1>4, <1>5, <1>6, <1>9, <1>10 DEF DeadlineInv, Threads

LEMMA NextDeadlineInv ==
  ASSUME WifiInv, DeadlineInv, [WifiNext]_wifivars
  PROVE  DeadlineInv'
  <1>0. w \in Shared /\ todo \in [Threads -> Seq(Statements)]
    BY DEF WifiInv, Types
  <1>1. CASE wifi_init \/ wifi_init_done
    <2>1. w'.state \in {"INIT", "FAILED", "ASSOCIATED"} /\ todo' = todo
      BY <1>0, <1>1 DEF wifi_init, wifi_init_done, Shared
    <2>2. QED
      BY <2>1 DEF DeadlineInv
  <1>2. CASE wifi_assoc
    <2>1. PICK s : s = <<NoRetries, State("SCANNING"), wifi_set_assoc_deadline, SignalMgmt>>
      OBVIOUS
    <2>2. w.state = "ASSOCIATED" /\ w' = w /\ todo' = [todo EXCEPT !["shell"] = s]
      BY <1>2, <2>1 DEF wifi_assoc, Choose
    <2>3. todo'["shell"] = s
      BY <1>0, <2>2 DEF Threads
    <2>4. Elems(s) = {NoRetries, State("SCANNING"), wifi_set_assoc_deadline, SignalMgmt}
      BY <2>1, CommonStatements, Tuple4
    <2>5. NoDeadline \notin Elems(s)
      BY <2>4, Kinds
    <2>6. Len(s) = 4 /\ s[1] = NoRetries /\ s[3] = wifi_set_assoc_deadline /\ s[4] = SignalMgmt
      BY <2>1
    <2>7. SetsAfter(s)
      <3>1. ASSUME NEW i \in 1 .. Len(s), s[i] = State("SCANNING") PROVE i < 3
        <4>1. s[1] # State("SCANNING") /\ s[3] # State("SCANNING") /\ s[4] # State("SCANNING")
          BY <2>6, Kinds
        <4>2. QED
          BY <2>6, <3>1, <4>1
      <3>2. 3 \in 1 .. Len(s)
        BY <2>6
      <3>3. QED
        BY <2>6, <3>1, <3>2 DEF SetsAfter
    <2>8. QED
      BY <2>2, <2>3, <2>5, <2>7 DEF DeadlineInv
  <1>3. CASE wifi_stop
    <2>1. PICK s : s = <<DisableMac, State("DOWN")>>
      OBVIOUS
    <2>2. todo["shell"] = <<>> /\ w' = w /\ late' = late /\ todo' = [todo EXCEPT !["shell"] = s]
      BY <1>3, <2>1 DEF wifi_stop, Choose, Idle
    <2>3. todo'["shell"] = s /\ todo'["mgmt"] = todo["mgmt"] /\ todo'["rx"] = todo["rx"]
      BY <1>0, <2>2 DEF Threads
    <2>4. Elems(s) = {DisableMac, State("DOWN")}
      BY <2>1, CommonStatements, Tuple2
    <2>5. NoDeadline \notin Elems(s) /\ State("SCANNING") \notin Elems(s)
      BY <2>4, Kinds
    <2>6. SetsAfter(s)
      BY <2>5 DEF SetsAfter, Elems
    <2>7. QED
      BY <2>2, <2>3, <2>5, <2>6, NoElems DEF DeadlineInv
  <1>4. CASE MgmtWakes
    <2>1. w' = [w EXCEPT !.sem = @ - 1] /\ late' = late /\ todo' = [todo EXCEPT !["mgmt"] = MgmtPass]
      BY <1>4 DEF MgmtWakes, Choose
    <2>2. w'.state = w.state /\ w'.deadline = w.deadline
      BY <1>0, <2>1 DEF Shared
    <2>3. /\ todo'["mgmt"] = MgmtPass /\ todo'["shell"] = todo["shell"]
          /\ todo'["rx"] = todo["rx"]
      BY <1>0, <2>1 DEF Threads
    <2>4. w.state = "SCANNING" /\ NoDeadline \in Elems(todo'["mgmt"]) => todo'["mgmt"] = Fail
      BY <1>0, <2>3, MgmtPassDeadline
    <2>5. QED
      BY <2>1, <2>2, <2>3, <2>4 DEF DeadlineInv
  <1>5. CASE RxHandles
    <2>1. w' = w /\ late' = late /\ todo' = [todo EXCEPT !["rx"] = wifi_process_mgmt_frame(frame)]
      BY <1>5 DEF RxHandles, Choose
    <2>2. /\ todo'["rx"] = wifi_process_mgmt_frame(frame) /\ todo'["shell"] = todo["shell"]
          /\ todo'["mgmt"] = todo["mgmt"]
      BY <1>0, <2>1 DEF Threads
    <2>3. w.state = "SCANNING" => NoDeadline \notin Elems(todo'["rx"])
      BY <2>2, ProcessDeadline
    <2>4. QED
      BY <2>1, <2>2, <2>3 DEF DeadlineInv
  <1>6. CASE Receive \/ Elapse \/ \E d \in Ring : MacSends(d)
    <2>1. /\ todo' = todo /\ late' = late /\ w'.state = w.state
          /\ w'.deadline = "none" => w.deadline = "none"
      <3>1. CASE Receive
        BY <1>0, <3>1 DEF Receive, wifi_isr, Shared
      <3>2. CASE Elapse
        BY <1>0, <3>2 DEF Elapse, Shared
      <3>3. CASE \E d \in Ring : MacSends(d)
        BY <1>0, <3>3 DEF MacSends, Shared
      <3>4. QED
        BY <1>6, <3>1, <3>2, <3>3
    <2>2. QED
      BY <2>1 DEF DeadlineInv
  <1>7. ASSUME NEW t \in Threads, Execute(t)
        PROVE  DeadlineInv'
    BY <1>7, ShellKeepsDeadline, TasksKeepDeadline DEF Threads
  <1>8. CASE UNCHANGED wifivars
    BY <1>8 DEF wifivars, DeadlineInv
  <1>9. QED
    BY <1>1, <1>2, <1>3, <1>4, <1>5, <1>6, <1>7, <1>8 DEF WifiNext, Ring

\* A scan that began with both tasks idle keeps the deadline wifi_assoc sets,
\* however the three threads interleave: what clears it, a failure or an
\* association of an earlier attempt still being reported, was under way when
\* the scan began.
THEOREM ScansHaveDeadlines == WifiSpec => []ScanHasDeadline
  <1>1. WifiInit => DeadlineInv
    <2>1. SUFFICES ASSUME WifiInit PROVE DeadlineInv
      OBVIOUS
    <2>2. w.state = "DOWN" /\ todo["shell"] = <<>>
      BY <2>1 DEF WifiInit, Threads
    <2>3. SetsAfter(<<>>)
      BY DEF SetsAfter
    <2>4. QED
      BY <2>2, <2>3, NoElems DEF DeadlineInv
  <1>2. WifiInv /\ DeadlineInv => ScanHasDeadline
    <2>1. SUFFICES ASSUME WifiInv, DeadlineInv PROVE ScanHasDeadline
      OBVIOUS
    <2>2. todo["shell"] \in Seq(Statements)
      BY <2>1 DEF WifiInv, Types, Threads
    <2>3. DOMAIN todo["shell"] = 1 .. Len(todo["shell"])
      BY <2>2, LenProperties
    <2>4. QED
      BY <2>1, <2>3 DEF DeadlineInv, ScanHasDeadline, Elems
  <1>3. QED
    BY <1>1, <1>2, NextDeadlineInv, WifiInvariant, PTL DEF WifiSpec

=============================================================================
