------------------------- MODULE ConfiguratorProofs -------------------------
(***************************************************************************)
(* The register sequences keep their promises for every list of operational *)
(* registers, every number of polls and every number of disturbed           *)
(* transfers.  The invariant says how far the running sequence has come:    *)
(* which registers the writes before the present one have left at a value   *)
(* no later step of the call takes back.                                    *)
(***************************************************************************)
EXTENDS Configurator, SequenceTheorems, TLAPS

\* The writes of the safe start, the operational registers, the driver, the trigger.
DriverStep == Len(Operational) + 5
TriggerStep == Len(Operational) + 6

\* While the program is written: the driver stays off and the trigger clear
\* from their safe start to their own target, and what was written stays.
WriteProgress ==
    pc = "write" =>
      /\ step \in 3 .. DriverStep => regs["VDRV_CTRL"] = "off"
      /\ step \in 4 .. TriggerStep => regs["TOF_CONFIG"] = "clear"
      /\ \A i \in 1 .. Len(Operational) : step > i + 4 => regs[Operational[i]] = "target"
      /\ step = TriggerStep => regs["VDRV_CTRL"] = "target"

\* The polls come after the last write.
PollProgress == pc = "poll" => \A r \in Regs : regs[r] = "target"

\* A running configure has not failed, has polls left, and before its first
\* write no register holds the target of the new profile.
ConfigureProgress ==
    /\ pc \in {"device_id", "rev_id", "write", "poll"} =>
         call = "configure" /\ ~closed /\ result = "OK" /\ polls < PollLimit
    /\ pc \in {"device_id", "rev_id"} => step = 1 /\ \A r \in Regs : regs[r] # "target"

\* force_safe remembers a miss as its first error, and the driver supply is off
\* after two writes that did not miss.
CloseProgress ==
    /\ pc = "close" =>
         /\ closed /\ step \in 1 .. 3 /\ misses < step
         /\ call = "configure" => result # "OK"
         /\ closing = "OK" <=> misses = 0
         /\ step = 3 /\ misses = 0 => regs["VDRV_CTRL"] = "off"
    /\ pc = "sleep" => call \in {"STANDBY", "SLEEP"}

ConfiguratorInv ==
    /\ TypeOK
    /\ WriteProgress
    /\ PollProgress
    /\ ConfigureProgress
    /\ CloseProgress
    /\ ClosingIsTrue
    /\ OutcomeAsPromised
-----------------------------------------------------------------------------
(* The sequences, position by position. *)

\* What a write is: a register and a value for it.
Pairs == Regs \X Values

\* The writes of the operational registers, between the safe start and the end.
Targets == [i \in DOMAIN Operational |-> <<Operational[i], "target">>]
Last == << <<"VDRV_CTRL", "target">>, <<"TOF_CONFIG", "target">> >>

LEMMA TargetWrites ==
    /\ Len(Operational) \in Nat
    /\ Targets \in Seq(Pairs)
    /\ Len(Targets) = Len(Operational)
    /\ \A i \in 1 .. Len(Operational) : Targets[i] = <<Operational[i], "target">>
  <1>1. Len(Operational) \in Nat /\ DOMAIN Operational = 1 .. Len(Operational)
        /\ \A i \in 1 .. Len(Operational) : Operational[i] \in Regs
    BY ConfiguratorConstants DEF Regs
  <1>2. \A i \in 1 .. Len(Operational) : <<Operational[i], "target">> \in Pairs
    BY <1>1 DEF Pairs, Values
  <1>3. Targets \in [1 .. Len(Operational) -> Pairs]
        /\ \A i \in 1 .. Len(Operational) : Targets[i] = <<Operational[i], "target">>
    BY <1>1, <1>2, Zenon DEF Targets
  <1>4. Targets \in Seq(Pairs) /\ Len(Targets) = Len(Operational)
    BY <1>1, <1>3
  <1>5. QED
    BY <1>1, <1>3, <1>4

LEMMA FixedWrites ==
    /\ SafeStart \in Seq(Pairs) /\ Len(SafeStart) = 4
    /\ Last \in Seq(Pairs) /\ Len(Last) = 2
  <1>1. \A r \in {"VDRV_CTRL", "TOF_CONFIG", "DEV_CTRL_3", "BURST_PULSE"} : r \in Regs
    BY ConfiguratorConstants DEF Regs
  <1>2. /\ <<"BURST_PULSE", "safe">> \in Pairs /\ <<"VDRV_CTRL", "off">> \in Pairs
        /\ <<"TOF_CONFIG", "clear">> \in Pairs /\ <<"DEV_CTRL_3", "safe">> \in Pairs
        /\ <<"VDRV_CTRL", "target">> \in Pairs /\ <<"TOF_CONFIG", "target">> \in Pairs
    BY <1>1 DEF Pairs, Values
  <1>3. QED
    BY <1>2 DEF SafeStart, Last

LEMMA ProgramAt ==
    /\ Len(Operational) \in Nat
    /\ Len(Program) = TriggerStep
    /\ Program[1] = <<"BURST_PULSE", "safe">>
    /\ Program[2] = <<"VDRV_CTRL", "off">>
    /\ Program[3] = <<"TOF_CONFIG", "clear">>
    /\ Program[4] = <<"DEV_CTRL_3", "safe">>
    /\ \A i \in 1 .. Len(Operational) : Program[i + 4] = <<Operational[i], "target">>
    /\ Program[DriverStep] = <<"VDRV_CTRL", "target">>
    /\ Program[TriggerStep] = <<"TOF_CONFIG", "target">>
  <1> DEFINE head == SafeStart \o Targets
  <1>1. Program = head \o Last
    BY DEF Program, Targets, Last
  <1>2. /\ head \in Seq(Pairs) /\ Len(head) = 4 + Len(Operational)
        /\ \A i \in 1 .. 4 + Len(Operational) :
             head[i] = IF i <= 4 THEN SafeStart[i] ELSE Targets[i - 4]
    <2>1. /\ head \in Seq(Pairs) /\ Len(head) = Len(SafeStart) + Len(Targets)
          /\ \A i \in 1 .. Len(SafeStart) + Len(Targets) :
               head[i] = IF i <= Len(SafeStart) THEN SafeStart[i]
                                                ELSE Targets[i - Len(SafeStart)]
      BY TargetWrites, FixedWrites, ConcatProperties, ZenonT(30)
    <2> HIDE DEF head
    <2>2. QED
      BY <2>1, TargetWrites, FixedWrites
  <1> HIDE DEF head
  <1>3. /\ Len(Program) = 6 + Len(Operational)
        /\ \A i \in 1 .. 6 + Len(Operational) :
             Program[i] = IF i <= 4 + Len(Operational) THEN head[i]
                                                      ELSE Last[i - (4 + Len(Operational))]
    <2>1. Len(head \o Last) = Len(head) + Len(Last)
          /\ \A i \in 1 .. Len(head) + Len(Last) :
               (head \o Last)[i] = IF i <= Len(head) THEN head[i] ELSE Last[i - Len(head)]
      BY <1>2, FixedWrites, ConcatProperties
    <2>2. QED
      BY <1>1, <1>2, <2>1, TargetWrites, FixedWrites
  <1>4. Len(Program) = TriggerStep /\ \A i \in 1 .. 4 : Program[i] = SafeStart[i]
    BY <1>2, <1>3, TargetWrites DEF TriggerStep
  <1>5. \A i \in 1 .. Len(Operational) : Program[i + 4] = Targets[i]
    BY <1>2, <1>3, TargetWrites
  <1>6. Program[DriverStep] = Last[1] /\ Program[TriggerStep] = Last[2]
    BY <1>3, TargetWrites DEF DriverStep, TriggerStep
  <1>7. QED
    BY <1>4, <1>5, <1>6, TargetWrites, SMTT(20) DEF Last, SafeStart

\* Every position is one of these.
LEMMA Positions ==
    ASSUME NEW s \in 1 .. Len(Program)
    PROVE  \/ s \in 1 .. 4
           \/ \E i \in 1 .. Len(Operational) : s = i + 4
           \/ s = DriverStep
           \/ s = TriggerStep
  <1>1. Len(Operational) \in Nat /\ Len(Program) = Len(Operational) + 6
    BY ProgramAt DEF TriggerStep
  <1>2. CASE s \in 5 .. Len(Operational) + 4
    <2>1. s - 4 \in 1 .. Len(Operational) /\ s = (s - 4) + 4
      BY <1>1, <1>2
    <2>2. QED
      BY <2>1
  <1>3. CASE s \notin 5 .. Len(Operational) + 4
    BY <1>1, <1>3 DEF DriverStep, TriggerStep
  <1>4. QED
    BY <1>2, <1>3

\* The registers of the sequences are registers of the chip, and distinct
\* where the argument needs it.
LEMMA RegisterFacts ==
    /\ {"VDRV_CTRL", "TOF_CONFIG", "DEV_CTRL_3", "BURST_PULSE"} \subseteq Regs
    /\ \A i \in 1 .. Len(Operational) :
         Operational[i] \in Regs /\ Operational[i] \notin {"VDRV_CTRL", "TOF_CONFIG"}
    /\ \A r \in Regs : \/ r \in {"VDRV_CTRL", "TOF_CONFIG"}
                       \/ \E i \in 1 .. Len(Operational) : r = Operational[i]
  <1>1. DOMAIN Operational = 1 .. Len(Operational)
    BY ConfiguratorConstants
  <1>2. QED
    BY <1>1, ConfiguratorConstants DEF Regs

\* What the present write of the program writes.
LEMMA ProgramWrites ==
    ASSUME NEW s \in 1 .. Len(Program)
    PROVE  Program[s][1] \in Regs /\ Program[s][2] \in Values
  <1>1. CASE s \in 1 .. 4
    BY <1>1, ProgramAt, RegisterFacts DEF Values
  <1>2. CASE \E i \in 1 .. Len(Operational) : s = i + 4
    BY <1>2, ProgramAt, RegisterFacts DEF Values
  <1>3. CASE s = DriverStep \/ s = TriggerStep
    BY <1>3, ProgramAt, RegisterFacts DEF Values
  <1>4. QED
    BY <1>1, <1>2, <1>3, Positions

\* What the present write of force_safe writes.
LEMMA ClosingWrites ==
    ASSUME NEW s \in 1 .. 3
    PROVE  Closing[s][1] \in Regs /\ Closing[s][2] \in Values \ {"target"}
  BY RegisterFacts DEF Closing, Values

-----------------------------------------------------------------------------
(* The trigger is armed last: the writes of the program. *)

\* A write, disturbed or not, gives one register its old value, the value of
\* the program or junk.
LEMMA TriggerLastWrite ==
    ASSUME ConfiguratorInv, pc = "write",
           NEW left, regs' = [regs EXCEPT ![Program[step][1]] = left],
           left \in {regs[Program[step][1]], Program[step][2], "junk"},
           NEW r \in Regs, regs'[r] = "target", regs[r] # "target"
    PROVE  /\ r = Program[step][1] /\ Program[step][2] = "target"
           /\ r = "TOF_CONFIG" => \A q \in Regs \ {r} : regs[q] = "target"
           /\ r = "VDRV_CTRL" => regs["TOF_CONFIG"] = "clear"
           /\ r \notin {"TOF_CONFIG", "VDRV_CTRL"} =>
                regs["TOF_CONFIG"] = "clear" /\ regs["VDRV_CTRL"] = "off"
  <1>1. regs \in [Regs -> Values] /\ step \in 1 .. Len(Program)
    BY DEF ConfiguratorInv, TypeOK
  <1>2. r = Program[step][1] /\ Program[step][2] = "target"
    BY <1>1, ProgramWrites
  <1>3. Len(Operational) \in Nat
    BY ProgramAt
  <1>4. CASE step \in 1 .. 4
    BY <1>2, <1>4, ProgramAt
  <1>5. CASE \E i \in 1 .. Len(Operational) : step = i + 4
    <2>1. PICK i \in 1 .. Len(Operational) : step = i + 4
      BY <1>5
    <2>2. r \notin {"TOF_CONFIG", "VDRV_CTRL"}
      BY <1>2, <2>1, ProgramAt, RegisterFacts
    <2>3. step \in 3 .. DriverStep /\ step \in 4 .. TriggerStep
      BY <2>1, <1>3 DEF DriverStep, TriggerStep
    <2>4. QED
      BY <1>2, <2>2, <2>3 DEF ConfiguratorInv, WriteProgress
  <1>6. CASE step = DriverStep
    <2>1. r = "VDRV_CTRL"
      BY <1>2, <1>6, ProgramAt
    <2>2. step \in 4 .. TriggerStep
      BY <1>3, <1>6 DEF DriverStep, TriggerStep
    <2>3. QED
      BY <1>2, <2>1, <2>2 DEF ConfiguratorInv, WriteProgress
  <1>7. CASE step = TriggerStep
    <2>1. r = "TOF_CONFIG"
      BY <1>2, <1>7, ProgramAt
    <2>2. regs["VDRV_CTRL"] = "target"
      BY <1>7 DEF ConfiguratorInv, WriteProgress
    <2>3. \A i \in 1 .. Len(Operational) : step > i + 4
      BY <1>3, <1>7 DEF TriggerStep
    <2>4. \A i \in 1 .. Len(Operational) : regs[Operational[i]] = "target"
      BY <2>3 DEF ConfiguratorInv, WriteProgress
    <2>5. \A q \in Regs \ {r} : regs[q] = "target"
      BY <2>1, <2>2, <2>4, RegisterFacts
    <2>6. QED
      BY <1>2, <2>1, <2>5
  <1>8. QED
    BY <1>1, <1>4, <1>5, <1>6, <1>7, Positions

-----------------------------------------------------------------------------
(* One step of the calls: what each keeps of the invariant. *)

LEMMA CallSteps ==
    ASSUME ConfiguratorInv,
           \/ Refuse
           \/ \E needsReady \in BOOLEAN : Configure(needsReady)
           \/ \E kind \in {"force_safe", "STANDBY", "SLEEP"} : EnterSafe(kind)
    PROVE  ConfiguratorInv'
  <1> USE DEF ConfiguratorInv
  <1>0. PollLimit \in Nat \ {0} /\ 1 \in 1 .. Len(Program)
    BY ConfiguratorConstants, ProgramAt DEF TriggerStep
  <1>1. CASE Refuse
    <2>1. TypeOK'
      BY <1>1 DEF Refuse, TypeOK, Calls, Codes
    <2>2. WriteProgress' /\ PollProgress' /\ ConfigureProgress' /\ CloseProgress'
      BY <1>1 DEF Refuse, WriteProgress, PollProgress, ConfigureProgress, CloseProgress
    <2>3. ClosingIsTrue' /\ OutcomeAsPromised'
      BY <1>1 DEF Refuse, ClosingIsTrue, OutcomeAsPromised, Configured
    <2>4. QED
      BY <2>1, <2>2, <2>3
  <1>2. ASSUME NEW needsReady \in BOOLEAN, Configure(needsReady)
        PROVE  ConfiguratorInv'
    <2>1. regs' \in [Regs -> Values] /\ \A r \in Regs : regs'[r] # "target"
      BY <1>2 DEF Configure, TypeOK, Values
    <2>2. TypeOK'
      <3>1. ready' \in BOOLEAN /\ sampled' \in BOOLEAN /\ closed' \in BOOLEAN
        BY <1>2, Zenon DEF Configure
      <3>2. QED
        BY <1>0, <1>2, <2>1, <3>1 DEF Configure, TypeOK, Calls, Codes
    <2>3. WriteProgress' /\ PollProgress' /\ CloseProgress' /\ ClosingIsTrue' /\ OutcomeAsPromised'
      BY <1>2 DEF Configure, WriteProgress, PollProgress, CloseProgress, ClosingIsTrue,
                  OutcomeAsPromised, Configured
    <2>4. ConfigureProgress'
      BY <1>0, <1>2, <2>1 DEF Configure, ConfigureProgress
    <2>5. QED
      BY <2>2, <2>3, <2>4
  <1>3. ASSUME NEW kind \in {"force_safe", "STANDBY", "SLEEP"}, EnterSafe(kind)
        PROVE  ConfiguratorInv'
    <2>1. TypeOK'
      BY <1>0, <1>3 DEF EnterSafe, TypeOK, Calls, Codes
    <2>2. WriteProgress' /\ PollProgress' /\ ConfigureProgress' /\ ClosingIsTrue' /\ OutcomeAsPromised'
      BY <1>3 DEF EnterSafe, WriteProgress, PollProgress, ConfigureProgress, ClosingIsTrue,
                  OutcomeAsPromised, Configured
    <2>3. CloseProgress'
      BY <1>3 DEF EnterSafe, CloseProgress
    <2>4. QED
      BY <2>1, <2>2, <2>3
  <1>4. QED
    BY <1>1, <1>2, <1>3

\* The two identity reads.
LEMMA IdentitySteps ==
    ASSUME ConfiguratorInv, ReadIdentity \/ IdentityFails
    PROVE  ConfiguratorInv'
  <1> USE DEF ConfiguratorInv
  <1>0. Len(Operational) \in Nat /\ MaxFaults \in Nat
    BY ConfiguratorConstants, ProgramAt
  <1>1. CASE ReadIdentity
    <2>1. TypeOK'
      BY <1>1 DEF ReadIdentity, TypeOK
    <2>2. WriteProgress'
      <3>1. step' = 1
        BY <1>1 DEF ReadIdentity, ConfigureProgress
      <3>2. QED
        BY <1>0, <3>1 DEF WriteProgress, DriverStep, TriggerStep
    <2>3. PollProgress' /\ ConfigureProgress' /\ CloseProgress' /\ ClosingIsTrue' /\ OutcomeAsPromised'
      BY <1>1 DEF ReadIdentity, PollProgress, ConfigureProgress, CloseProgress, ClosingIsTrue,
                  OutcomeAsPromised, Configured
    <2>4. QED
      BY <2>1, <2>2, <2>3
  <1>2. CASE IdentityFails
    <2>1. result' \in {"BUS", "IDENTITY"}
      BY <1>2 DEF IdentityFails
    <2>2. TypeOK'
      BY <1>0, <1>2, <2>1 DEF IdentityFails, Disturb, TypeOK, Codes
    <2>3. WriteProgress' /\ PollProgress' /\ ConfigureProgress' /\ CloseProgress'
      BY <1>2 DEF IdentityFails, WriteProgress, PollProgress, ConfigureProgress, CloseProgress
    <2>4. ClosingIsTrue' /\ OutcomeAsPromised'
      BY <1>2, <2>1 DEF IdentityFails, ConfigureProgress, ClosingIsTrue, OutcomeAsPromised, Configured
    <2>5. QED
      BY <2>2, <2>3, <2>4
  <1>3. QED
    BY <1>1, <1>2

\* fail_safe_result begins to close the chip, whatever the registers hold.
LEMMA FailSafeStep ==
    ASSUME ConfiguratorInv, pc \in {"write", "poll"},
           NEW code \in Codes \ {"OK"}, FailSafe(code),
           regs' \in [Regs -> Values], faults' \in 0 .. MaxFaults, polls' \in 0 .. PollLimit,
           UNCHANGED <<call, ready, sampled>>
    PROVE  ConfiguratorInv'
  <1> USE DEF ConfiguratorInv
  <1>1. TypeOK'
    <2>1. ready' \in BOOLEAN /\ sampled' \in BOOLEAN /\ closed' \in BOOLEAN
      BY Zenon DEF FailSafe, TypeOK
    <2>2. 1 \in 1 .. Len(Program)
      BY ProgramAt DEF TriggerStep
    <2>3. QED
      BY <2>1, <2>2 DEF FailSafe, TypeOK, Codes
  <1>2. WriteProgress' /\ PollProgress' /\ ConfigureProgress' /\ ClosingIsTrue' /\ OutcomeAsPromised'
    BY DEF FailSafe, WriteProgress, PollProgress, ConfigureProgress, ClosingIsTrue,
           OutcomeAsPromised, Configured
  <1>3. CloseProgress'
    BY DEF FailSafe, CloseProgress
  <1>4. QED
    BY <1>1, <1>2, <1>3

\* A write that verifies moves the program on.
LEMMA WriteNextStep ==
    ASSUME ConfiguratorInv, WriteNext
    PROVE  ConfiguratorInv'
  <1> USE DEF ConfiguratorInv
  <1>1. /\ pc = "write" /\ regs \in [Regs -> Values] /\ step \in 1 .. Len(Program)
        /\ regs' = [regs EXCEPT ![Program[step][1]] = Program[step][2]]
        /\ Program[step][1] \in Regs /\ Program[step][2] \in Values
    BY ProgramWrites DEF WriteNext, Written, TypeOK
  <1>2. Len(Operational) \in Nat /\ Len(Program) = Len(Operational) + 6
    BY ProgramAt DEF TriggerStep
  <1>3. TypeOK'
    <2>1. regs' \in [Regs -> Values]
      BY <1>1
    <2>2. step' \in 1 .. Len(Program) /\ pc' \in {"write", "poll"}
      BY <1>1, <1>2 DEF WriteNext
    <2>3. QED
      BY <2>1, <2>2 DEF WriteNext, TypeOK
  <1>4. CloseProgress' /\ ClosingIsTrue' /\ OutcomeAsPromised' /\ ConfigureProgress'
    BY DEF WriteNext, CloseProgress, ClosingIsTrue, OutcomeAsPromised, Configured, ConfigureProgress
  <1> DEFINE Done(s, rg) ==
        /\ s \in 3 .. DriverStep => rg["VDRV_CTRL"] = "off"
        /\ s \in 4 .. TriggerStep => rg["TOF_CONFIG"] = "clear"
        /\ \A i \in 1 .. Len(Operational) : s > i + 4 => rg[Operational[i]] = "target"
        /\ s >= TriggerStep => rg["VDRV_CTRL"] = "target"
        /\ s > TriggerStep => rg["TOF_CONFIG"] = "target"
  <1>5. Done(step, regs)
    BY <1>1, <1>2 DEF WriteProgress, TriggerStep
  <1>6. Done(step + 1, regs')
    <2>1. CASE step \in 1 .. 4
      <3>1. /\ step = 1 => regs' = [regs EXCEPT !["BURST_PULSE"] = "safe"]
            /\ step = 2 => regs' = [regs EXCEPT !["VDRV_CTRL"] = "off"]
            /\ step = 3 => regs' = [regs EXCEPT !["TOF_CONFIG"] = "clear"]
            /\ step = 4 => regs' = [regs EXCEPT !["DEV_CTRL_3"] = "safe"]
        <4>1. /\ step = 1 => Program[step][1] = "BURST_PULSE" /\ Program[step][2] = "safe"
              /\ step = 2 => Program[step][1] = "VDRV_CTRL" /\ Program[step][2] = "off"
              /\ step = 3 => Program[step][1] = "TOF_CONFIG" /\ Program[step][2] = "clear"
              /\ step = 4 => Program[step][1] = "DEV_CTRL_3" /\ Program[step][2] = "safe"
          BY ProgramAt
        <4>2. QED
          BY <1>1, <4>1, Zenon
      <3>2. \A i \in 1 .. Len(Operational) : ~(step + 1 > i + 4)
        BY <2>1, <1>2
      <3>3. (step + 1 \in 3 .. DriverStep => regs'["VDRV_CTRL"] = "off")
            /\ (step + 1 \in 4 .. TriggerStep => regs'["TOF_CONFIG"] = "clear")
        <4>1. {"VDRV_CTRL", "TOF_CONFIG", "DEV_CTRL_3", "BURST_PULSE"} \subseteq Regs
          BY RegisterFacts
        <4>2. CASE step = 1
          BY <1>2, <4>2
        <4>3. CASE step = 2
          BY <1>1, <1>2, <3>1, <4>1, <4>3
        <4>4. CASE step = 3
          BY <1>1, <1>2, <1>5, <3>1, <4>1, <4>4 DEF DriverStep
        <4>5. CASE step = 4
          BY <1>1, <1>2, <1>5, <3>1, <4>1, <4>5 DEF DriverStep, TriggerStep
        <4>6. QED
          BY <2>1, <4>2, <4>3, <4>4, <4>5
      <3>4. ~(step + 1 >= TriggerStep)
        BY <1>2, <2>1 DEF TriggerStep
      <3>5. QED
        BY <1>2, <2>1, <3>2, <3>3, <3>4 DEF TriggerStep
    <2>2. CASE \E i \in 1 .. Len(Operational) : step = i + 4
      <3>1. PICK k \in 1 .. Len(Operational) : step = k + 4
        BY <2>2
      <3>2. regs' = [regs EXCEPT ![Operational[k]] = "target"]
        <4>1. Program[step][1] = Operational[k] /\ Program[step][2] = "target"
          BY <3>1, ProgramAt
        <4>2. QED
          BY <1>1, <4>1, Zenon
      <3>3. regs'["VDRV_CTRL"] = regs["VDRV_CTRL"] /\ regs'["TOF_CONFIG"] = regs["TOF_CONFIG"]
        <4>1. Operational[k] \notin {"VDRV_CTRL", "TOF_CONFIG"}
              /\ "VDRV_CTRL" \in Regs /\ "TOF_CONFIG" \in Regs
          BY RegisterFacts
        <4>2. QED
          BY <1>1, <3>2, <4>1
      <3>4. ASSUME NEW i \in 1 .. Len(Operational), step + 1 > i + 4
            PROVE  regs'[Operational[i]] = "target"
        <4>1. i = k \/ step > i + 4
          BY <3>1, <3>4
        <4>2. QED
          BY <1>1, <1>5, <3>2, <4>1, RegisterFacts
      <3>5. step \in 3 .. DriverStep /\ step \in 4 .. TriggerStep /\ ~(step + 1 >= TriggerStep)
        BY <1>2, <3>1 DEF DriverStep, TriggerStep
      <3>6. QED
        BY <1>2, <1>5, <3>3, <3>4, <3>5 DEF DriverStep, TriggerStep
    <2>3. CASE step = DriverStep
      <3>1. regs' = [regs EXCEPT !["VDRV_CTRL"] = "target"]
        BY <1>1, <2>3, ProgramAt
      <3>2. \A i \in 1 .. Len(Operational) : regs'[Operational[i]] = "target"
        BY <1>1, <1>2, <1>5, <2>3, <3>1, RegisterFacts DEF DriverStep
      <3>3. QED
        BY <1>1, <1>2, <1>5, <2>3, <3>1, <3>2, RegisterFacts DEF DriverStep, TriggerStep
    <2>4. CASE step = TriggerStep
      <3>1. regs' = [regs EXCEPT !["TOF_CONFIG"] = "target"]
        BY <1>1, <2>4, ProgramAt
      <3>2. \A i \in 1 .. Len(Operational) : regs'[Operational[i]] = "target"
        BY <1>1, <1>2, <1>5, <2>4, <3>1, RegisterFacts DEF TriggerStep
      <3>3. QED
        BY <1>1, <1>2, <1>5, <2>4, <3>1, <3>2, RegisterFacts DEF DriverStep, TriggerStep
    <2>5. QED
      BY <1>1, <2>1, <2>2, <2>3, <2>4, Positions
  <1>7. WriteProgress'
    <2> SUFFICES ASSUME pc' = "write" PROVE step' = step + 1
      BY <1>1, <1>2, <1>6 DEF WriteProgress, TriggerStep
    <2> QED
      BY <1>1 DEF WriteNext
  <1>8. PollProgress'
    <2> SUFFICES ASSUME pc' = "poll" PROVE \A r \in Regs : regs'[r] = "target"
      BY DEF PollProgress
    <2>1. step + 1 > TriggerStep
      BY <1>1, <1>2 DEF WriteNext, TriggerStep
    <2>2. \A i \in 1 .. Len(Operational) : step + 1 > i + 4
      BY <1>1, <1>2, <2>1 DEF TriggerStep
    <2>3. QED
      BY <1>1, <1>2, <1>6, <2>1, <2>2, RegisterFacts DEF TriggerStep
  <1>9. QED
    BY <1>3, <1>4, <1>7, <1>8

\* A disturbed transfer keeps the registers in their values.
LEMMA DisturbedTypes ==
    ASSUME TypeOK, NEW reg \in Regs, NEW v \in Values, Disturbed(reg, v)
    PROVE  regs' \in [Regs -> Values] /\ faults' \in 0 .. MaxFaults
  BY ConfiguratorConstants DEF TypeOK, Disturbed, Values

LEMMA WriteFailsStep ==
    ASSUME ConfiguratorInv, WriteFails
    PROVE  ConfiguratorInv'
  <1>1. TypeOK /\ pc = "write"
    BY DEF ConfiguratorInv, WriteFails
  <1>2. regs' \in [Regs -> Values] /\ faults' \in 0 .. MaxFaults
    BY <1>1, ProgramWrites, DisturbedTypes DEF WriteFails, TypeOK
  <1>3. PICK code \in {"BUS", "READBACK"} : FailSafe(code)
    BY DEF WriteFails
  <1>4. code \in Codes \ {"OK"} /\ polls' \in 0 .. PollLimit /\ UNCHANGED <<call, ready, sampled>>
    BY <1>1 DEF Codes, WriteFails, TypeOK
  <1>5. QED
    BY <1>1, <1>2, <1>3, <1>4, FailSafeStep

LEMMA PollSteps ==
    ASSUME ConfiguratorInv, PollSucceeds \/ PollAgain \/ PollTimesOut \/ PollFails
    PROVE  ConfiguratorInv'
  <1>1. TypeOK /\ pc = "poll" /\ PollLimit \in Nat /\ MaxFaults \in Nat
    BY ConfiguratorConstants DEF ConfiguratorInv, PollSucceeds, PollAgain, PollTimesOut, PollFails
  <1>2. polls' \in 0 .. PollLimit
    BY <1>1 DEF ConfiguratorInv, ConfigureProgress, TypeOK,
                PollSucceeds, PollAgain, PollTimesOut, PollFails
  <1>3. CASE PollSucceeds
    <2> USE DEF ConfiguratorInv
    <2>1. TypeOK'
      BY <1>2, <1>3 DEF PollSucceeds, TypeOK
    <2>2. WriteProgress' /\ PollProgress' /\ ConfigureProgress' /\ CloseProgress'
      BY <1>3 DEF PollSucceeds, WriteProgress, PollProgress, ConfigureProgress, CloseProgress
    <2>3. ClosingIsTrue' /\ OutcomeAsPromised'
      BY <1>3 DEF PollSucceeds, PollProgress, ConfigureProgress, ClosingIsTrue, OutcomeAsPromised, Configured
    <2>4. QED
      BY <2>1, <2>2, <2>3
  <1>4. CASE PollAgain
    <2> USE DEF ConfiguratorInv
    <2>1. TypeOK'
      BY <1>2, <1>4 DEF PollAgain, TypeOK
    <2>2. WriteProgress' /\ PollProgress' /\ ConfigureProgress' /\ CloseProgress'
          /\ ClosingIsTrue' /\ OutcomeAsPromised'
      BY <1>4 DEF PollAgain, WriteProgress, PollProgress, ConfigureProgress, CloseProgress,
                  ClosingIsTrue, OutcomeAsPromised, Configured
    <2>3. QED
      BY <2>1, <2>2
  <1>5. CASE PollTimesOut
    <2>1. regs' \in [Regs -> Values] /\ faults' \in 0 .. MaxFaults
          /\ UNCHANGED <<call, ready, sampled>> /\ FailSafe("VDRV_TIMEOUT")
      BY <1>1, <1>5 DEF PollTimesOut, TypeOK
    <2>2. "VDRV_TIMEOUT" \in Codes \ {"OK"}
      BY DEF Codes
    <2>3. QED
      BY <1>1, <1>2, <2>1, <2>2, FailSafeStep
  <1>6. CASE PollFails
    <2>1. regs' \in [Regs -> Values] /\ faults' \in 0 .. MaxFaults /\ UNCHANGED <<call, ready, sampled>>
      BY <1>1, <1>6 DEF PollFails, Disturb, TypeOK
    <2>2. PICK code \in {"BUS", "DRIVER_FAULT"} : FailSafe(code)
      BY <1>6 DEF PollFails
    <2>3. code \in Codes \ {"OK"}
      BY DEF Codes
    <2>4. QED
      BY <1>1, <1>2, <2>1, <2>2, <2>3, FailSafeStep
  <1>7. QED
    BY <1>3, <1>4, <1>5, <1>6

\* A write of force_safe, with the first error so far and the misses counted.
LEMMA CloseStep ==
    ASSUME ConfiguratorInv, pc = "close", NEW first \in Codes, CloseEnds(first),
           regs' \in [Regs -> Values], faults' \in 0 .. MaxFaults,
           misses' \in {misses, misses + 1}, first = "OK" <=> misses' = 0,
           NEW left, regs' = [regs EXCEPT ![Closing[step][1]] = left],
           misses' = misses => left = Closing[step][2],
           UNCHANGED <<call, ready, polls, sampled, closed>>
    PROVE  ConfiguratorInv'
  <1> USE DEF ConfiguratorInv
  <1>1. /\ step \in 1 .. 3 /\ misses \in Nat /\ misses < step /\ closed
        /\ regs \in [Regs -> Values] /\ "VDRV_CTRL" \in Regs /\ "TOF_CONFIG" \in Regs
    BY RegisterFacts DEF TypeOK, CloseProgress
  <1>2. /\ step = 1 => Closing[step][1] = "TOF_CONFIG"
        /\ step = 2 => Closing[step][1] = "VDRV_CTRL" /\ Closing[step][2] = "off"
        /\ step = 3 => Closing[step][1] = "TOF_CONFIG" /\ Closing[step][2] = "standby"
    BY DEF Closing
  <1>3. Len(Program) \in Nat /\ Len(Program) >= 3
    BY ProgramAt DEF TriggerStep
  <1>4. CASE step < 3
    <2>1. pc' = "close" /\ step' = step + 1 /\ closing' = first /\ result' = result
      BY <1>4 DEF CloseEnds
    <2>2. TypeOK'
      <3>1. misses' \in 0 .. 3 /\ step' \in 1 .. Len(Program)
        BY <1>1, <1>3, <1>4, <2>1
      <3>2. QED
        BY <2>1, <3>1 DEF TypeOK
    <2>3. WriteProgress' /\ PollProgress' /\ ConfigureProgress' /\ ClosingIsTrue' /\ OutcomeAsPromised'
      BY <2>1 DEF WriteProgress, PollProgress, ConfigureProgress, ClosingIsTrue,
                  OutcomeAsPromised, Configured
    <2>4. step' = 3 /\ misses' = 0 => regs'["VDRV_CTRL"] = "off"
      <3> SUFFICES ASSUME step' = 3, misses' = 0 PROVE regs'["VDRV_CTRL"] = "off"
        OBVIOUS
      <3>1. step = 2 /\ misses' = misses
        BY <1>1, <2>1
      <3>2. QED
        BY <1>1, <1>2, <3>1
    <2>5. CloseProgress'
      BY <1>1, <1>4, <2>1, <2>4 DEF CloseProgress
    <2>6. QED
      BY <2>2, <2>3, <2>5
  <1>5. CASE ~(step < 3)
    <2>1. /\ closing' = first /\ result' = Returned(first) /\ step' = step /\ step = 3
          /\ pc' = IF call \in {"STANDBY", "SLEEP"} /\ first = "OK" THEN "sleep" ELSE "idle"
      BY <1>1, <1>5 DEF CloseEnds
    <2>2. TypeOK'
      <3>1. misses' \in 0 .. 3 /\ result' \in Codes
        BY <1>1, <2>1 DEF TypeOK, Returned
      <3>2. pc' \in {"sleep", "idle"}
        BY <2>1
      <3>3. QED
        BY <2>1, <3>1, <3>2 DEF TypeOK
    <2>3. WriteProgress' /\ PollProgress' /\ ConfigureProgress' /\ CloseProgress'
      BY <2>1 DEF WriteProgress, PollProgress, ConfigureProgress, CloseProgress
    <2>4. /\ regs'["VDRV_CTRL"] = regs["VDRV_CTRL"]
          /\ misses' = misses => regs'["TOF_CONFIG"] = "standby"
      BY <1>1, <1>2, <2>1
    <2>5. misses = 0 => regs["VDRV_CTRL"] = "off"
      BY <2>1 DEF CloseProgress
    <2>6. misses' <= 1 => regs'["TOF_CONFIG"] = "standby" \/ regs'["VDRV_CTRL"] = "off"
      BY <1>1, <2>4, <2>5
    <2>7. misses' = 0 => regs'["TOF_CONFIG"] = "standby" /\ regs'["VDRV_CTRL"] = "off"
      BY <1>1, <2>4, <2>5
    <2>8. ClosingIsTrue'
      BY <1>1, <2>1, <2>6, <2>7 DEF ClosingIsTrue, Returned
    <2>9. OutcomeAsPromised'
      BY <1>1, <2>1, <2>7 DEF OutcomeAsPromised, Configured, Returned, CloseProgress
    <2>10. QED
      BY <2>2, <2>3, <2>8, <2>9
  <1>6. QED
    BY <1>4, <1>5

LEMMA CloseSteps ==
    ASSUME ConfiguratorInv, CloseNext \/ CloseMisses
    PROVE  ConfiguratorInv'
  <1>1. /\ TypeOK /\ pc = "close" /\ step \in 1 .. 3
        /\ (closing = "OK" <=> misses = 0) /\ misses \in Nat /\ closing \in Codes
    BY DEF ConfiguratorInv, CloseProgress, TypeOK, CloseNext, CloseMisses
  <1>2. Closing[step][1] \in Regs /\ Closing[step][2] \in Values
    BY <1>1, ClosingWrites
  <1>3. CASE CloseNext
    <2>1. /\ CloseEnds(closing) /\ misses' = misses /\ faults' \in 0 .. MaxFaults
          /\ regs' = [regs EXCEPT ![Closing[step][1]] = Closing[step][2]]
          /\ UNCHANGED <<call, ready, polls, sampled, closed>>
      BY <1>1, <1>3 DEF CloseNext, FirstError, Written, TypeOK
    <2>2. regs' \in [Regs -> Values]
      BY <1>1, <1>2, <2>1 DEF TypeOK
    <2>3. QED
      BY <1>1, <2>1, <2>2, CloseStep
  <1>4. CASE CloseMisses
    <2>1. PICK code \in {"BUS", "READBACK"} : CloseEnds(FirstError(code))
      BY <1>4 DEF CloseMisses
    <2>2. FirstError(code) \in Codes /\ FirstError(code) # "OK"
      BY <1>1 DEF FirstError, Codes
    <2>3. regs' \in [Regs -> Values] /\ faults' \in 0 .. MaxFaults
      BY <1>1, <1>2, <1>4, DisturbedTypes DEF CloseMisses
    <2>4. PICK left : regs' = [regs EXCEPT ![Closing[step][1]] = left]
      BY <1>4 DEF CloseMisses, Disturbed
    <2>5. misses' = misses + 1 /\ UNCHANGED <<call, ready, polls, sampled, closed>>
      BY <1>4 DEF CloseMisses
    <2>6. misses' # 0 /\ misses' # misses
      BY <1>1, <2>5
    <2>7. QED
      BY <1>1, <2>1, <2>2, <2>3, <2>4, <2>5, <2>6, CloseStep
  <1>5. QED
    BY <1>3, <1>4

LEMMA LowPowerStep ==
    ASSUME ConfiguratorInv, LowPower
    PROVE  ConfiguratorInv'
  <1> USE DEF ConfiguratorInv
  <1>1. /\ pc = "sleep" /\ pc' = "idle" /\ call \in {"STANDBY", "SLEEP"}
        /\ UNCHANGED <<call, step, ready, polls, sampled, closing, closed, misses>>
    BY DEF LowPower, CloseProgress
  <1>2. /\ regs' \in [Regs -> Values] /\ faults' \in 0 .. MaxFaults /\ result' \in Codes
    <2> DEFINE v == IF call = "SLEEP" THEN "sleep" ELSE "standby"
    <2>1. "TOF_CONFIG" \in Regs /\ v \in Values
      BY RegisterFacts DEF Values
    <2>2. CASE Written("TOF_CONFIG", v) /\ UNCHANGED <<result, faults>>
      BY <2>1, <2>2 DEF TypeOK, Written
    <2>3. CASE Disturbed("TOF_CONFIG", v) /\ result' \in {"BUS", "READBACK"}
      BY <2>1, <2>3, DisturbedTypes DEF Codes
    <2>4. QED
      BY <2>2, <2>3 DEF LowPower
  <1>3. TypeOK'
    BY <1>1, <1>2 DEF TypeOK
  <1>4. WriteProgress' /\ PollProgress' /\ ConfigureProgress' /\ CloseProgress'
    BY <1>1 DEF WriteProgress, PollProgress, ConfigureProgress, CloseProgress
  <1>5. ClosingIsTrue' /\ OutcomeAsPromised'
    BY <1>1 DEF ClosingIsTrue, OutcomeAsPromised, Configured
  <1>6. QED
    BY <1>3, <1>4, <1>5

-----------------------------------------------------------------------------
(* The theorems. *)

LEMMA ConfiguratorInit == Init => ConfiguratorInv
  <1> SUFFICES ASSUME Init PROVE ConfiguratorInv
    OBVIOUS
  <1>1. TypeOK
    <2>1. regs \in [Regs -> Values]
      BY DEF Init, Values
    <2>2. 1 \in 1 .. Len(Program) /\ 0 \in 0 .. PollLimit /\ 0 \in 0 .. MaxFaults
      BY ProgramAt, ConfiguratorConstants DEF TriggerStep
    <2>3. ready \in BOOLEAN /\ sampled \in BOOLEAN /\ closed \in BOOLEAN
      BY Zenon DEF Init
    <2>4. QED
      BY <2>1, <2>2, <2>3 DEF Init, TypeOK, Calls, Codes
  <1>2. WriteProgress /\ PollProgress /\ ConfigureProgress /\ CloseProgress
        /\ ClosingIsTrue /\ OutcomeAsPromised
    BY DEF Init, WriteProgress, PollProgress, ConfigureProgress, CloseProgress,
           ClosingIsTrue, OutcomeAsPromised, Configured
  <1>3. QED
    BY <1>1, <1>2 DEF ConfiguratorInv

LEMMA ConfiguratorNext == ConfiguratorInv /\ [Next]_vars => ConfiguratorInv'
  <1> SUFFICES ASSUME ConfiguratorInv, [Next]_vars PROVE ConfiguratorInv'
    OBVIOUS
  <1>1. CASE UNCHANGED vars
    BY <1>1 DEF vars, ConfiguratorInv, TypeOK, WriteProgress, PollProgress, ConfigureProgress,
                CloseProgress, ClosingIsTrue, OutcomeAsPromised, Configured
  <1>2. CASE Next
    BY <1>2, CallSteps, IdentitySteps, WriteNextStep, WriteFailsStep, PollSteps, CloseSteps,
       LowPowerStep DEF Next
  <1>3. QED
    BY <1>1, <1>2

\* The invariant of the register sequences: how far configure, its polls and
\* force_safe have come, and what that means for the registers.
THEOREM ConfiguratorInvariant == Spec => []ConfiguratorInv
  BY ConfiguratorInit, ConfiguratorNext, PTL DEF Spec

\* One disturbed transfer never leaves a chip armed that is being closed, and
\* force_safe returns OK only for a chip in standby with its supply off
\* (tuss4470_force_safe, tuss4470_configure_firmware).
THEOREM ClosingIsTrueAlways == Spec => []ClosingIsTrue
  <1>1. ConfiguratorInv => ClosingIsTrue
    BY DEF ConfiguratorInv
  <1>2. QED
    BY <1>1, ConfiguratorInvariant, PTL

\* What tuss4470_configure_firmware returns is true of the chip: OK for a chip
\* at its targets, an error for one that was left alone or closed.
THEOREM OutcomeAsPromisedAlways == Spec => []OutcomeAsPromised
  <1>1. ConfiguratorInv => OutcomeAsPromised
    BY DEF ConfiguratorInv
  <1>2. QED
    BY <1>1, ConfiguratorInvariant, PTL

\* The driver is never triggered half configured: the trigger takes its target
\* after every other register, the driver with the trigger clear, and every
\* other register with the driver off and the trigger clear, also in a write
\* that is disturbed (tuss4470_configure_firmware).
THEOREM TriggerLastAlways == Spec => TriggerLast
  <1> DEFINE Armed(r) ==
        CASE r = "TOF_CONFIG" -> \A q \in Regs \ {r} : regs[q] = "target"
          [] r = "VDRV_CTRL"  -> regs["TOF_CONFIG"] = "clear"
          [] OTHER            -> regs["TOF_CONFIG"] = "clear" /\ regs["VDRV_CTRL"] = "off"
  <1>1. ASSUME ConfiguratorInv, [Next]_vars,
               NEW r \in Regs, regs'[r] = "target", regs[r] # "target"
        PROVE  Armed(r)
    <2>1. regs \in [Regs -> Values] /\ TypeOK
      BY <1>1 DEF ConfiguratorInv, TypeOK
    <2>2. ASSUME NEW left, regs' = [regs EXCEPT ![Program[step][1]] = left], pc = "write",
                 left \in {regs[Program[step][1]], Program[step][2], "junk"}
          PROVE  Armed(r)
      <3>1. /\ r = "TOF_CONFIG" => \A q \in Regs \ {r} : regs[q] = "target"
            /\ r = "VDRV_CTRL" => regs["TOF_CONFIG"] = "clear"
            /\ r \notin {"TOF_CONFIG", "VDRV_CTRL"} =>
                 regs["TOF_CONFIG"] = "clear" /\ regs["VDRV_CTRL"] = "off"
        BY <1>1, <2>2, TriggerLastWrite
      <3>2. QED
        BY <3>1
    <2>3. CASE WriteNext
      BY <2>2, <2>3 DEF WriteNext, Written
    <2>4. CASE WriteFails
      BY <2>2, <2>4 DEF WriteFails, Disturbed
    <2>5. CASE \E needsReady \in BOOLEAN : Configure(needsReady)
      BY <1>1, <2>1, <2>5 DEF Configure
    <2>6. CASE CloseNext \/ CloseMisses
      <3>1. step \in 1 .. 3
        BY <1>1, <2>6 DEF ConfiguratorInv, CloseProgress, CloseNext, CloseMisses
      <3>2. PICK left : /\ regs' = [regs EXCEPT ![Closing[step][1]] = left]
                        /\ left \in {regs[Closing[step][1]], Closing[step][2], "junk"}
        BY <2>6 DEF CloseNext, CloseMisses, Written, Disturbed
      <3>3. QED
        BY <1>1, <2>1, <3>1, <3>2, ClosingWrites
    <2>7. CASE LowPower
      <3>1. PICK left : /\ regs' = [regs EXCEPT !["TOF_CONFIG"] = left]
                        /\ left \in {regs["TOF_CONFIG"], "sleep", "standby", "junk"}
        BY <2>7 DEF LowPower, Written, Disturbed
      <3>2. QED
        BY <1>1, <2>1, <3>1
    <2>8. CASE regs' = regs
      BY <1>1, <2>8
    <2>9. QED
      BY <1>1, <2>3, <2>4, <2>5, <2>6, <2>7, <2>8
         DEF Next, vars, Refuse, EnterSafe, ReadIdentity, IdentityFails, PollSucceeds, PollAgain,
             PollTimesOut, PollFails
  <1>2. ConfiguratorInv /\ [Next]_vars =>
          [\A r \in Regs : regs'[r] = "target" /\ regs[r] # "target" =>
             CASE r = "TOF_CONFIG" -> \A q \in Regs \ {r} : regs[q] = "target"
               [] r = "VDRV_CTRL"  -> regs["TOF_CONFIG"] = "clear"
               [] OTHER            -> regs["TOF_CONFIG"] = "clear" /\ regs["VDRV_CTRL"] = "off"]_vars
    BY <1>1
  <1>3. QED
    BY <1>2, ConfiguratorInvariant, PTL DEF Spec, TriggerLast
=============================================================================
