------------------------------- MODULE NvmeSetup -------------------------------
(***************************************************************************)
(* nvme_controller_setup (driver/nvme/nvme.c): the controller is reset and *)
(* enabled with the pair of queues for administration, is asked what it    *)
(* is, gets the pair for reading, and a disk is registered for every       *)
(* namespace in blocks of 512 bytes.  Module NvmeQueues has the queues.    *)
(*                                                                         *)
(* The controller goes on by itself: from enabled to ready and back, when  *)
(* it likes, to a fatal error, and through the commands.                   *)
(***************************************************************************)
EXTENDS ControllerSetup

-----------------------------------------------------------------------------
(* The commands, by what the controller looks at.                           *)
NoCommand == [opcode |-> "none"]
IdentifyController(prp) == [opcode |-> "identify", cns |-> 1, nsid |-> 0, prp |-> prp]
IdentifyNamespace(n, prp) == [opcode |-> "identify", cns |-> 0, nsid |-> n, prp |-> prp]

(* The size of a queue in a command is its last index.  A driver that gives *)
(* the number of its entries ...                                            *)
CreateWithCount(prp, size) ==
  [opcode |-> "createCQ", prp |-> prp, qid |-> 1, size |-> size + 1, contiguous |-> TRUE]

(* ... and the code's.                                                      *)
CreateCompletionQueue(prp, size) ==
  [opcode |-> "createCQ", prp |-> prp, qid |-> 1, size |-> size, contiguous |-> TRUE]
CreateSubmissionQueue(prp, size) ==
  [opcode |-> "createSQ", prp |-> prp, qid |-> 1, size |-> size, contiguous |-> TRUE, cqid |-> 1]
Read == [opcode |-> "read"]

(* A page of completions has 256 entries, one of submissions 64.            *)
CqSize == 255
SqSize == 63

(* CAP: the last index of a queue at most, and the smallest page.           *)
Capability(mqes, page) == [MQES |-> mqes, MPSMIN |-> page]

Supports(f, size) == 0 < size /\ size <= f.capability.MQES

(* CC: on or off, the commands, the size of a page and of the entries of    *)
(* both queues, as powers of two.                                           *)
Configuration(enabled, css, page, sq, cq) ==
  [EN |-> enabled, CSS |-> css, MPS |-> page, IOSQES |-> sq, IOCQES |-> cq]

(* CSTS.                                                                    *)
Status(ready, fatal) == [RDY |-> ready, CFS |-> fatal]

(* The registers as the firmware left them, the queues, the command under   *)
(* way and the namespaces told of so far.                                   *)
NvmeRegisters(enabled, ready, fatal, master) ==
  [CC |-> Configuration(enabled, 6, 0, 0, 0), CSTS |-> Status(ready, fatal), master |-> master,
   ASQ |-> 0, ACQ |-> 0, sq |-> 0, cq |-> 0, command |-> NoCommand, told |-> {}]

(* What the page of an identify command holds, a page of zeros first.       *)
Zeros == [size |-> 0, count |-> 0, index |-> [lower |-> 0, upper |-> 0], formats |-> <<0>>]

(* The index of the format of a namespace, of two fields, the upper one, of *)
(* two bits, in the wrong place: it is put over those of the lower one.     *)
InBoth(m, n) == (m % 2) * (n % 2) + 2 * ((m \div 2) % 2) * (n \div 2)
FormatIndex(data) ==
  LET lower == data.index.lower upper == data.index.upper
  IN  lower + upper - InBoth(lower, upper)

BlockSize(data) ==
  IF FormatIndex(data) + 1 \in DOMAIN data.formats THEN data.formats[FormatIndex(data) + 1] ELSE 0

-----------------------------------------------------------------------------
(* The loop waits until the controller has followed what was last asked of  *)
(* it, disables it when it runs, and waits again.  A loop that does not     *)
(* look whether a controller is still on its way ...                        *)
WaitDisabledAtOnce ==
  /\ At("nvme", "reset")
  /\ IF boot.wait > Patience \/ Device.CSTS.CFS THEN Return /\ UNCHANGED hw
     ELSE IF ~Device.CC.EN THEN Go("admin") /\ UNCHANGED hw
     ELSE hw' = [hw EXCEPT ![Here].CC.EN = FALSE] /\ Turn
  /\ UNCHANGED <<world, lists, driver, free>>

(* ... and the code's.                                                      *)
WaitDisabled ==
  /\ At("nvme", "reset")
  /\ IF boot.wait > Patience \/ Device.CSTS.CFS THEN Return /\ UNCHANGED hw
     ELSE IF Device.CSTS.RDY # Device.CC.EN THEN Turn /\ UNCHANGED hw
     ELSE IF ~Device.CC.EN THEN Go("admin") /\ UNCHANGED hw
     ELSE hw' = [hw EXCEPT ![Here].CC.EN = FALSE] /\ Turn
  /\ UNCHANGED <<world, lists, driver, free>>

AdminQueues ==
  /\ At("nvme", "admin")
  /\ Enough(2)
  /\ driver' = [driver EXCEPT ![Here] = Supplied(<<The("asq"), The("acq")>>)]
  /\ Allocate(2)
  /\ hw' = [hw EXCEPT ![Here] = [@ EXCEPT !.ASQ = Page(1), !.ACQ = Page(2)]]
  /\ Go("enable")
  /\ UNCHANGED <<world, lists>>

Enable ==
  /\ At("nvme", "enable")
  /\ hw' = [hw EXCEPT ![Here].CC = Configuration(TRUE, 0, Function.capability.MPSMIN, 6, 4)]
  /\ boot' = [boot EXCEPT !.at = "enabled", !.wait = 0]
  /\ UNCHANGED <<world, lists, driver, free>>

(* The second loop ends at readiness or the last turn, and the status is    *)
(* read once more behind it.                                                *)
WaitReady ==
  /\ At("nvme", "enabled")
  /\ IF Device.CSTS.RDY \/ boot.wait = Patience THEN Go("verify")
     ELSE IF Device.CSTS.CFS THEN Return
     ELSE Turn
  /\ UNCHANGED <<world, lists, hw, driver, free>>

VerifyReady ==
  /\ At("nvme", "verify")
  /\ IF Device.CSTS.RDY THEN Go("identify") ELSE Return
  /\ UNCHANGED <<world, lists, hw, driver, free>>

(* A command in the queue; nvm_express_completion waits for its answer      *)
(* without an end, and of the status the callers make nothing.              *)
Submit(command, next) ==
  /\ hw' = [hw EXCEPT ![Here].command = command]
  /\ Go(next)

Answered == Device.command = NoCommand

IdentifyIt ==
  /\ At("nvme", "identify")
  /\ Enough(1)
  /\ driver' = [driver EXCEPT ![Here] = [Supplied(<<The("identify")>>) EXCEPT !.data = Zeros]]
  /\ Allocate(1)
  /\ Submit(IdentifyController(Page(1)), "identified")
  /\ UNCHANGED <<world, lists>>

(* The number of namespaces is noted, and the page becomes the ring of the  *)
(* queue for reading.                                                       *)
CreateQueues ==
  /\ At("nvme", "identified")
  /\ Answered /\ Enough(1)
  /\ driver' = [driver EXCEPT ![Here] = [Supplied(<<The("iocq")>>) EXCEPT !.data = Zeros, !.count = Record.data.count]]
  /\ Allocate(1)
  /\ Submit(CreateCompletionQueue(Page(1), CqSize), "completions")
  /\ UNCHANGED <<world, lists>>

CreateSecond ==
  /\ At("nvme", "completions")
  /\ Answered
  /\ Submit(CreateSubmissionQueue(Record.page[The("identify")], SqSize), "namespaces")
  /\ UNCHANGED <<world, lists, driver, free>>

(* A driver that leaves in the page what it has of the last namespace ...   *)
AskOverLast ==
  /\ At("nvme", "namespaces")
  /\ Answered /\ boot.unit <= Record.count
  /\ Submit(IdentifyNamespace(boot.unit, Record.page[The("identify")]), "namespace")
  /\ UNCHANGED <<world, lists, driver, free>>

(* ... and the code's, which clears it.                                     *)
AskNamespace ==
  /\ At("nvme", "namespaces")
  /\ Answered /\ boot.unit <= Record.count
  /\ driver' = [driver EXCEPT ![Here].data = Zeros]
  /\ Submit(IdentifyNamespace(boot.unit, Record.page[The("identify")]), "namespace")
  /\ UNCHANGED <<world, lists, free>>

NextUnit == boot' = [boot EXCEPT !.at = "namespaces", !.unit = @ + 1]

AddNamespace ==
  /\ At("nvme", "namespace")
  /\ Answered
  /\ IF Record.data.size = 0 \/ BlockSize(Record.data) # 9
     THEN NextUnit /\ UNCHANGED <<registry, hw>>
     ELSE StorageInsert(boot.unit, Record.data.size) /\ Submit(Read, "table")
  /\ UNCHANGED <<world, chain, driver, free>>

TableRead ==
  /\ At("nvme", "table")
  /\ Answered
  /\ NextUnit
  /\ UNCHANGED <<world, lists, hw, driver, free>>

(* The page is given back, as the one that was asked for last; it goes on   *)
(* being the ring the controller reads commands from.                       *)
NvmeDone ==
  /\ At("nvme", "namespaces")
  /\ Answered /\ boot.unit > Record.count
  /\ free' = free \cup {Record.page[The("identify")]}
  /\ Return
  /\ UNCHANGED <<world, lists, hw, driver>>

NvmePanics ==
  \/ Panic("open", Function.class = "nvme" /\ BaseAddress(Function, 0) = 0)
  \/ Panic("admin", Function.class = "nvme" /\ ~Enough(2))
  \/ Panic("identify", Function.class = "nvme" /\ ~Enough(1))
  \/ Panic("identified", Function.class = "nvme" /\ Answered /\ ~Enough(1))

-----------------------------------------------------------------------------
(* The controller becomes ready after it was enabled, and the reverse; a    *)
(* reset takes the queues with it.                                          *)
Follow(p) ==
  /\ function[p].class = "nvme"
  /\ hw[p].CSTS.RDY # hw[p].CC.EN /\ ~hw[p].CSTS.CFS
  /\ hw' = [hw EXCEPT ![p] = [@ EXCEPT !.CSTS = Status(hw[p].CC.EN, FALSE), !.sq = 0, !.cq = 0, !.command = NoCommand]]
  /\ UNCHANGED <<world, lists, driver, free, boot>>

Fatal(p) ==
  /\ function[p].class = "nvme"
  /\ function[p].breaks /\ ~hw[p].CSTS.CFS
  /\ hw' = [hw EXCEPT ![p].CSTS.CFS = TRUE]
  /\ UNCHANGED <<world, lists, driver, free, boot>>

(* Commands are fetched from memory by a bus master that is ready.          *)
Runs(p) ==
  /\ function[p].class = "nvme"
  /\ hw[p].CC.EN /\ hw[p].CSTS.RDY /\ ~hw[p].CSTS.CFS /\ hw[p].master
  /\ hw[p].command # NoCommand

(* Namespace n tells of itself, 0 is the controller.                        *)
Told(f, n) ==
  IF n = 0 THEN [Zeros EXCEPT !.count = Len(f.namespaces)]
  ELSE LET said == f.namespaces[n]
       IN [size |-> said.size, count |-> 0, index |-> said.index, formats |-> said.formats]

Identified(p) ==
  /\ Runs(p) /\ hw[p].command.opcode = "identify"
  /\ hw' = [hw EXCEPT ![p] = [@ EXCEPT !.command = NoCommand, !.told = hw[p].told \cup {hw[p].command.nsid}]]
  /\ driver' = [driver EXCEPT ![p].data = Told(function[p], hw[p].command.nsid)]
  /\ UNCHANGED <<world, lists, free, boot>>

(* A queue of a size the controller has, the second only after the first.   *)
QueueCreated(p) ==
  /\ Runs(p)
  /\ LET c == hw[p].command
     IN /\ c.opcode \in {"createCQ", "createSQ"}
        /\ hw[p].CC.IOSQES = 6 /\ hw[p].CC.IOCQES = 4
        /\ Supports(function[p], c.size) /\ c.contiguous
        /\ c.opcode = "createSQ" => hw[p].cq # 0
        /\ hw' = [hw EXCEPT ![p] = [@ EXCEPT !.command = NoCommand,
                                             !.cq = IF c.opcode = "createCQ" THEN c.prp ELSE hw[p].cq,
                                             !.sq = IF c.opcode = "createSQ" THEN c.prp ELSE hw[p].sq]]
  /\ UNCHANGED <<world, lists, driver, free, boot>>

(* The command fails; one on a queue that is not there has no answer.       *)
CommandFails(p) ==
  /\ Runs(p) /\ hw[p].command # Read
  /\ \/ hw[p].command.opcode = "identify" /\ function[p].breaks
     \/ hw[p].command.opcode # "identify" /\ ~Supports(function[p], hw[p].command.size)
     \/ hw[p].command.opcode = "createSQ" /\ hw[p].cq = 0
  /\ hw' = [hw EXCEPT ![p].command = NoCommand]
  /\ UNCHANGED <<world, lists, driver, free, boot>>

ReadDone(p) ==
  /\ Runs(p) /\ hw[p].command = Read /\ hw[p].sq # 0
  /\ hw' = [hw EXCEPT ![p].command = NoCommand]
  /\ UNCHANGED <<world, lists, driver, free, boot>>

NvmeController(p) ==
  \/ Follow(p)
  \/ Identified(p) \/ QueueCreated(p) \/ CommandFails(p) \/ ReadDone(p)

NvmeSteps ==
  \/ Open("nvme", 0, "reset")
  \/ WaitDisabled \/ AdminQueues \/ Enable \/ WaitReady \/ VerifyReady
  \/ IdentifyIt \/ CreateQueues \/ CreateSecond
  \/ AskNamespace \/ AddNamespace \/ TableRead \/ NvmeDone
  \/ NvmePanics
=============================================================================
