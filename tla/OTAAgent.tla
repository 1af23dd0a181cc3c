------------------------------- MODULE OTAAgent -------------------------------
(***************************************************************************)
(* The over-the-air update agent of a device: the task that takes messages *)
(* and events, the MQTT callback that feeds it, its two timers, the image  *)
(* it receives and the resets it causes, with the job service and the      *)
(* stream service it talks to.                                             *)
(*                                                                         *)
(* Source: lib/ota/aws_ota_agent.c.  The task is cut where it waits and    *)
(* around each status report, so that a reset or an event of another task  *)
(* comes between any two effects that others see.                          *)
(***************************************************************************)
EXTENDS OTAFlash, Sequences

CONSTANTS
    Jobs,         \* the update jobs; a job is named like the image it delivers
    CustomJobs,   \* the jobs whose documents are not OTA documents
    NoJob,        \* stands for no job
    OTA_NUM_MSG_Q_ENTRIES,
    OTA_MAX_STREAM_REQUEST_MOMENTUM,
    Verdicts,     \* the image states the user's self test may set
    Faults,       \* the operations that may fail and the accidents that may happen
    MAX_EVENTS    \* how many faults and calls of the user a behaviour has

ASSUME JobsAssumption ==
    /\ Jobs \subseteq Images \ {Factory} /\ CustomJobs \subseteq Jobs
    /\ NoJob \notin Images
ASSUME BoundsAssumption ==
    /\ OTA_NUM_MSG_Q_ENTRIES \in Nat \ {0}
    /\ OTA_MAX_STREAM_REQUEST_MOMENTUM \in Nat \ {0}
ASSUME VerdictsAssumption == Verdicts \subseteq {"Accepted", "Rejected"}
ASSUME FaultsAssumption ==
    /\ Faults \subseteq {"publish", "subscribe", "unsubscribe", "malloc", "write",
                         "erase", "verify", "header", "trailer", "lost", "duplicate",
                         "power", "cancel"}
    /\ MAX_EVENTS \in Nat

VARIABLES
    \* the device
    flash,         \* the two banks
    boot,          \* "run" | "default" | "error": what the bootloader launched
    \* the agent's context xOTA_Agent, and the file statics beside it
    eState,
    eImageState,
    activeJob,     \* pucOTA_Singleton_ActiveJobName
    clientToken,   \* pucClientTokenFromJob: "null" | "zero" | "nonzero"
    xInSelfTest,
    selfTestTimer, \* "none" | "running" | "stopped"
    pxC,           \* the context of the file being received, or NoFile
    queue,         \* xOTA_MsgQ
    events,        \* xOTA_EventFlags
    ulReqCounter,  \* whether an update was asked for since the reset
    \* the OTA task and the MQTT task
    pc,            \* where the OTA task is
    ret,           \* where it goes on after prvSetImageStateWithReason
    setting,       \* the state it sets there
    bits,          \* xBits
    msg,           \* xMsgMetaData, or NoMsg
    arriving,      \* the message prvOTAPublishCallback is about to queue, or NoMsg
    \* the services
    jobs,          \* per job: its status, and the version that set self_test
    asked,         \* the client token of the request not answered yet, or "no"
    streams,       \* the stream topics the device is subscribed to
    inFlight,      \* the blocks requested and not delivered yet
    budget         \* the faults and calls of the user that may still come

agentVars   == <<eState, eImageState, activeJob, clientToken, xInSelfTest,
                 selfTestTimer, ulReqCounter>>
taskVars    == <<pc, ret, setting, bits, msg>>
mailVars    == <<queue, events, arriving>>
deviceVars  == <<flash, boot, budget>>
serviceVars == <<jobs, asked, streams, inFlight>>

vars == <<deviceVars, agentVars, pxC, mailVars, taskVars, serviceVars>>

NoFile == [job |-> NoJob, bitmap |-> FALSE, remaining |-> {}, momentum |-> 0,
           timer |-> "none"]
NoMsg  == [type |-> "none"]

JobDocs == [type : {"job"}, job : Jobs \cup {NoJob}, selfTest : BOOLEAN,
            updater : Nat, token : {"null", "zero", "nonzero"}]
StreamMsgs == [type : {"stream"}, job : Jobs, block : Blocks]

\* The operations, of these kinds, that fail in a step, and what they cost.
Failing(kinds) == {f \in SUBSET (kinds \cap Faults) : Cardinality(f) <= budget}
Spends(f) == budget' = budget - Cardinality(f)

\* An accident, or a call of the user, that is one of the step's own.
SpendsOne == budget > 0 /\ budget' = budget - 1

ClearedAgent ==
    /\ eState' = "NotReady" /\ eImageState' = "Unknown" /\ activeJob' = NoJob
    /\ clientToken' = "null" /\ selfTestTimer' = "none" /\ pxC' = NoFile
    /\ queue' = <<>> /\ events' = {}
    /\ ret' = "wait" /\ setting' = "Unknown" /\ bits' = {} /\ msg' = NoMsg

Init ==
    /\ flash = FactoryFlash /\ boot = "run"
    /\ eState = "NotReady" /\ eImageState = "Unknown" /\ activeJob = NoJob
    /\ clientToken = "null" /\ xInSelfTest = FALSE /\ selfTestTimer = "none"
    /\ pxC = NoFile /\ queue = <<>> /\ events = {} /\ ulReqCounter = 0
    /\ pc = "create" /\ ret = "wait" /\ setting = "Unknown" /\ bits = {}
    /\ msg = NoMsg /\ arriving = NoMsg
    /\ jobs = [j \in Jobs |-> [status |-> "Queued", updater |-> 0]]
    /\ asked = "no" /\ streams = {} /\ inFlight = {} /\ budget = MAX_EVENTS

AgentRuns == pc \notin {"create", "off", "dead", "halted"}

\* The version of the running image, xAppFirmwareVersion.
RunningVersion == Version[Running(flash)]

-----------------------------------------------------------------------------
(* The job service.  A job whose status is final keeps it.                 *)

Final == {"Succeeded", "Failed", "Canceled"}

\* A status report of the device; one that is lost changes nothing.
Reported(j, status, sent) ==
    jobs' = IF sent /\ j # NoJob /\ jobs[j].status \notin Final
            THEN [jobs EXCEPT ![j] = [status |-> status,
                                      updater |-> IF status = "SelfTest"
                                                  THEN RunningVersion ELSE 0]]
            ELSE jobs

\* The next job: the one in self test, else the first that waits.  Jobs are queued
\* in the order of their images' versions.
First(S) == CHOOSE j \in S : \A i \in S : Version[j] <= Version[i]

NextJob ==
    LET testing == {j \in Jobs : jobs[j].status = "SelfTest"}
        queued  == {j \in Jobs : jobs[j].status = "Queued"}
    IN  IF testing # {} THEN First(testing)
        ELSE IF queued # {} THEN First(queued) ELSE NoJob

JobDoc(j, token) ==
    [type |-> "job", job |-> j, token |-> token,
     selfTest |-> j # NoJob /\ jobs[j].status = "SelfTest",
     updater |-> IF j = NoJob THEN 0 ELSE jobs[j].updater]

\* prvOTAPublishCallback, first half: it sees that the agent's event group is
\* there.  The message is dropped when it is not.
Arrives(m) ==
    /\ arriving = NoMsg
    /\ AgentRuns
    /\ arriving' = m

\* The answer to a request for the next job; one that is delivered twice leaves
\* the request as if it had not been answered.
ServiceAnswers ==
    /\ asked # "no"
    /\ Arrives(JobDoc(NextJob, asked))
    /\ \E f \in Failing({"duplicate"}) :
          Spends(f) /\ asked' = IF f = {} THEN "no" ELSE asked
    /\ UNCHANGED <<flash, boot, agentVars, pxC, queue, events, taskVars, jobs,
                   streams, inFlight>>

\* The notification that the next job has changed, after one is done.
ServiceNotifies ==
    /\ \E j \in Jobs : jobs[j].status \in Final
    /\ NextJob # NoJob /\ Arrives(JobDoc(NextJob, "null"))
    /\ UNCHANGED <<deviceVars, agentVars, pxC, queue, events, taskVars, serviceVars>>

\* The operator cancels a job.
ServiceCancels(j) ==
    /\ "cancel" \in Faults /\ SpendsOne
    /\ jobs[j].status \notin Final
    /\ jobs' = [jobs EXCEPT ![j] = [status |-> "Canceled", updater |-> 0]]
    /\ UNCHANGED <<flash, boot, agentVars, pxC, mailVars, taskVars, asked,
                   streams, inFlight>>

StreamServes ==
    \E f \in inFlight :
        /\ f[1] \in streams
        /\ Arrives([type |-> "stream", job |-> f[1], block |-> f[2]])
        /\ inFlight' = inFlight \ {f}
        /\ UNCHANGED <<deviceVars, agentVars, pxC, queue, events, taskVars, jobs,
                       asked, streams>>

\* An answer or a block is lost on its way.
Lost ==
    /\ "lost" \in Faults /\ SpendsOne
    /\ \/ asked # "no" /\ asked' = "no" /\ UNCHANGED inFlight
       \/ \E f \in inFlight : inFlight' = inFlight \ {f} /\ UNCHANGED asked
    /\ UNCHANGED <<flash, boot, agentVars, pxC, mailVars, taskVars, jobs, streams>>

\* prvOTAPublishCallback, second half: the message goes to the queue, or is
\* dropped when the queue is full.  A queue that is gone stops the device in
\* configASSERT.
prvOTAPublishCallback ==
    /\ arriving # NoMsg
    /\ arriving' = NoMsg
    /\ \/ /\ AgentRuns /\ Len(queue) < OTA_NUM_MSG_Q_ENTRIES
          /\ queue' = Append(queue, arriving)
          /\ events' = events \cup {"msgReady"}
          /\ UNCHANGED pc
       \/ /\ AgentRuns /\ Len(queue) = OTA_NUM_MSG_Q_ENTRIES
          /\ UNCHANGED <<queue, events, pc>>
       \/ /\ ~AgentRuns
          /\ pc' = "halted"
          /\ UNCHANGED <<queue, events>>
    /\ UNCHANGED <<deviceVars, agentVars, pxC, ret, setting, bits, msg, serviceVars>>

-----------------------------------------------------------------------------
(* The functions of the agent's interface, called by other tasks.          *)

\* OTA_AgentInit: the context is set up and the task created.
OTA_AgentInit ==
    /\ pc = "off"
    /\ pc' = "create"
    /\ UNCHANGED <<deviceVars, agentVars, pxC, mailVars, ret, setting, bits, msg,
                   serviceVars>>

OTA_AgentShutdown ==
    /\ AgentRuns
    /\ SpendsOne
    /\ eState \notin {"NotReady", "ShuttingDown"}
    /\ events' = events \cup {"shutdown"}
    /\ UNCHANGED <<flash, boot, agentVars, pxC, queue, arriving, taskVars, serviceVars>>

\* OTA_SetImageState( eOTA_ImageState_Aborted ): only tells the task.
OTA_AbortImage ==
    /\ AgentRuns /\ SpendsOne
    /\ events' = events \cup {"userAbort"}
    /\ UNCHANGED <<flash, boot, agentVars, pxC, queue, arriving, taskVars, serviceVars>>

\* The client token numbers the requests of a run of the program.
Asks(sent) ==
    /\ asked' = IF sent THEN IF ulReqCounter = 0 THEN "zero" ELSE "nonzero" ELSE asked
    /\ ulReqCounter' = 1

OTA_CheckForUpdate ==
    /\ AgentRuns /\ SpendsOne
    /\ Asks(TRUE)
    /\ UNCHANGED <<flash, boot, eState, eImageState, activeJob, clientToken,
                   xInSelfTest, selfTestTimer, pxC, mailVars, taskVars, jobs,
                   streams, inFlight>>

-----------------------------------------------------------------------------
(* Parts of the task's steps.                                              *)

\* Go through prvSetImageStateWithReason( state ), then on to "next".
Calls(state, next) == pc' = "set" /\ setting' = state /\ ret' = next

GoesTo(next) == pc' = next /\ UNCHANGED <<setting, ret>>

prvUnSubscribeFromDataStream(j, failing) ==
    streams' = IF "unsubscribe" \in failing THEN streams ELSE streams \ {j}

prvOTA_Close(failing) ==
    pxC' = NoFile /\ prvUnSubscribeFromDataStream(pxC.job, failing)

OTA_CheckForSelfTest ==
    selfTestTimer' = IF prvPAL_GetPlatformImageState(flash) = "PendingCommit"
                     THEN "running" ELSE selfTestTimer

-----------------------------------------------------------------------------
(* The OTA task.                                                           *)

\* The task starts: it subscribes to the job topics, looks at the platform's
\* image state and asks for a job.  It deletes itself when it cannot subscribe.
TaskStarts ==
    /\ pc = "create"
    /\ \/ /\ "subscribe" \in Faults /\ SpendsOne
          /\ pc' = "off"
          /\ UNCHANGED <<agentVars, asked>>
       \/ /\ OTA_CheckForSelfTest
          /\ xInSelfTest' = (prvPAL_GetPlatformImageState(flash) = "PendingCommit")
          /\ \E f \in Failing({"publish"}) : Spends(f) /\ Asks(f = {})
          /\ eState' = "Ready"
          /\ pc' = "wait"
          /\ UNCHANGED <<eImageState, activeJob, clientToken>>
    /\ UNCHANGED <<flash, boot, pxC, mailVars, ret, setting, bits, msg, jobs,
                   streams, inFlight>>

\* xEventGroupWaitBits, which clears the bits it returns.  The body of the loop
\* looks at them in this order; without a file, only for messages.
WaitBits ==
    /\ pc = "wait" /\ events # {}
    /\ bits' = events \cap {"msgReady"} /\ events' = {}
    /\ GoesTo(CASE "shutdown" \in events -> "shutdown"
                [] {"shutdown", "userAbort"} \cap events = {"userAbort"} /\ pxC # NoFile -> "abort"
                [] {"shutdown", "userAbort", "reqTimeout"} \cap events = {"reqTimeout"}
                   /\ pxC.remaining # {} -> "timeout"
                [] OTHER -> "messages")
    /\ UNCHANGED <<deviceVars, agentVars, pxC, queue, arriving, msg, serviceVars>>

HandleUserAbort ==
    /\ pc = "abort"
    /\ Calls("Aborted", "messages")
    /\ UNCHANGED <<deviceVars, agentVars, pxC, mailVars, bits, msg, serviceVars>>

BugPrvPublishGetStreamMessage ==   \* mutant: a request that is published clears the count
    /\ \E f \in Failing({"publish"}) :
          /\ Spends(f)
          /\ pxC' = [pxC EXCEPT !.momentum = 0,
                                !.timer = IF f = {} THEN "running" ELSE @]
          /\ inFlight' = IF f = {} THEN inFlight \cup ({pxC.job} \X pxC.remaining)
                         ELSE inFlight
    /\ GoesTo("messages")

\* One more request without an answer, or too many.
\* The timer that leads to the next request is started only when the request
\* could be published.
prvPublishGetStreamMessage ==
    IF pxC.momentum < OTA_MAX_STREAM_REQUEST_MOMENTUM
    THEN /\ \E f \in Failing({"publish"}) :
               /\ Spends(f)
               /\ pxC' = [pxC EXCEPT !.momentum = @ + 1,
                                     !.timer = IF f = {} THEN "running" ELSE @]
               /\ inFlight' = IF f = {} THEN inFlight \cup ({pxC.job} \X pxC.remaining)
                              ELSE inFlight
         /\ GoesTo("messages")
    ELSE Calls("Aborted", "messages") /\ UNCHANGED <<pxC, inFlight, budget>>

HandleRequestTimeout ==
    /\ pc = "timeout"
    /\ prvPublishGetStreamMessage
    /\ UNCHANGED <<flash, boot, agentVars, mailVars, bits, msg, jobs, asked, streams>>

\* The head of the queue is taken.  A job message aborts the transfer under way
\* before it is looked at.
TakeMessage ==
    /\ pc = "messages" /\ "msgReady" \in bits /\ queue # <<>>
    /\ msg' = Head(queue) /\ queue' = Tail(queue)
    /\ CASE msg'.type = "stream" -> GoesTo("ingest")
         [] msg'.type = "job" /\ pxC # NoFile -> Calls("Aborted", "parse")
         [] msg'.type = "job" /\ pxC = NoFile -> GoesTo("parse")
    /\ UNCHANGED <<deviceVars, agentVars, pxC, events, arriving, bits, serviceVars>>

BugEndOfLoop ==   \* mutant: the events are cleared after the loop's body, not before it
    /\ pc = "messages" /\ ("msgReady" \notin bits \/ queue = <<>>)
    /\ eState' = IF pxC = NoFile THEN "Ready" ELSE eState
    /\ bits' = {} /\ msg' = NoMsg /\ events' = {}
    /\ GoesTo("wait")
    /\ UNCHANGED <<deviceVars, eImageState, activeJob, clientToken, xInSelfTest,
                   selfTestTimer, ulReqCounter, pxC, queue, arriving, serviceVars>>

\* The end of the loop's body: without a file the agent is Ready.
EndOfLoop ==
    /\ pc = "messages" /\ ("msgReady" \notin bits \/ queue = <<>>)
    /\ eState' = IF pxC = NoFile THEN "Ready" ELSE eState
    /\ bits' = {} /\ msg' = NoMsg
    /\ GoesTo("wait")
    /\ UNCHANGED <<deviceVars, eImageState, activeJob, clientToken, xInSelfTest,
                   selfTestTimer, ulReqCounter, pxC, mailVars, serviceVars>>

-----------------------------------------------------------------------------
(* prvSetImageStateWithReason.                                             *)

\* First the platform's image state and the agent's own.
SetImageState ==
    /\ pc = "set"
    /\ \E f \in Failing({"write", "erase"}) :
         LET pal == prvPAL_SetPlatformImageState(flash, setting, f)
             state == IF pal.ok \/ setting = "Aborted" THEN setting ELSE "Rejected"
         IN  /\ Spends(f)
             /\ flash' = pal.flash
             /\ eImageState' = state
             /\ setting' = state
    /\ pc' = "report"
    /\ UNCHANGED <<boot, eState, activeJob, clientToken, xInSelfTest, selfTestTimer,
                   ulReqCounter, pxC, mailVars, ret, bits, msg, serviceVars>>

JobStatus(state) ==
    CASE state = "Testing" -> "SelfTest"
      [] state = "Accepted" -> "Succeeded"
      [] OTHER -> "Failed"

\* Then the status of the job that is active, if one is, whose name is freed
\* when it is done.  Every caller that aborts closes the file next; the one that
\* accepts ends the self test when there was an active job.
ReportImageState ==
    /\ pc = "report"
    /\ \E f \in Failing({"publish", "unsubscribe"}) :
          /\ Spends(f)
          /\ Reported(activeJob, JobStatus(setting), "publish" \notin f)
          /\ IF setting = "Aborted" THEN prvOTA_Close(f) ELSE UNCHANGED <<pxC, streams>>
    /\ activeJob' = IF setting = "Testing" THEN activeJob ELSE NoJob
    /\ selfTestTimer' = IF setting = "Accepted" /\ activeJob # NoJob
                           /\ selfTestTimer = "running"
                        THEN "stopped" ELSE selfTestTimer
    /\ xInSelfTest' = IF ret = "accepted" /\ activeJob # NoJob THEN FALSE ELSE xInSelfTest
    /\ pc' = IF ret = "accepted" THEN "messages" ELSE ret
    /\ setting' = "Unknown" /\ ret' = "wait"
    /\ UNCHANGED <<flash, boot, eState, eImageState, clientToken, ulReqCounter,
                   mailVars, bits, msg, asked, inFlight>>

-----------------------------------------------------------------------------
(* A job message.                                                          *)

\* The document is not one of an OTA job, or the agent is busy with another one:
\* the job is reported as failed, and the agent forgets the name it had.
Refused(doc) ==
    \/ doc.job \in CustomJobs
    \/ doc.job # NoJob /\ activeJob \notin {NoJob, doc.job}

\* The job document repeats the active job, or says there is no job.
Ignored(doc) == doc.job = NoJob \/ (~Refused(doc) /\ activeJob = doc.job)

Taken(doc) == ~Refused(doc) /\ ~Ignored(doc)

\* The token of the document.  A document without one leaves the pointer to the
\* token of an earlier one, in a buffer that was given back: it reads anything.
TokensRead(doc) ==
    IF doc.token # "null" THEN {doc.token}
    ELSE IF clientToken = "null" THEN {"null"} ELSE {"zero", "nonzero"}

\* A job in self test: the version that runs must be newer than the version that
\* received it.  Every other case resets the device.
SelfTestVerdict(doc, token) ==
    CASE doc.updater < RunningVersion -> Calls("Testing", "selftest")
      [] doc.updater > RunningVersion -> Calls("Rejected", "reset")
      [] doc.updater = RunningVersion /\ token # "nonzero" -> Calls("Rejected", "reset")
      [] OTHER -> GoesTo("reset")

prvParseJobDoc ==
    /\ pc = "parse"
    /\ \E token \in TokensRead(msg), f \in Failing({"publish", "unsubscribe"}) :
         /\ Spends(f)
         /\ clientToken' = token
         /\ \/ /\ Refused(msg)
               /\ activeJob' = NoJob
               /\ Reported(msg.job, "Failed", "publish" \notin f)
               /\ GoesTo("selftest")
            \/ /\ Ignored(msg)
               /\ GoesTo("selftest")
               /\ UNCHANGED <<activeJob, jobs>>
            \/ /\ Taken(msg)
               /\ activeJob' = msg.job
               /\ IF msg.selfTest THEN SelfTestVerdict(msg, token) ELSE GoesTo("prepare")
               /\ UNCHANGED jobs
         \* A context that does not start a transfer is closed again.
         /\ IF pc' = "prepare" THEN UNCHANGED streams
            ELSE prvUnSubscribeFromDataStream(msg.job, f)
    /\ UNCHANGED <<flash, boot, eState, eImageState, xInSelfTest, selfTestTimer,
                   ulReqCounter, pxC, mailVars, bits, msg, asked, inFlight>>

FileFor(j) == [job |-> j, bitmap |-> TRUE, remaining |-> BlocksOf[j], momentum |-> 0,
               timer |-> "running"]

\* The rest of prvProcessOTAJobMsg: what is needed to receive the file.  On a
\* platform in self test the context is returned as it is, without a bitmap.
ReturnsBareContext ==
    /\ pxC' = [NoFile EXCEPT !.job = activeJob]
    /\ eState' = "Active"
    /\ GoesTo("messages")
    /\ UNCHANGED <<flash, streams, budget>>

\* Without memory for the bitmap, or the subscription, the context is closed; the
\* name of the active job stays.
CannotReceive ==
    /\ {"malloc", "subscribe"} \cap Faults # {} /\ SpendsOne
    /\ prvUnSubscribeFromDataStream(activeJob, {})
    /\ GoesTo("selftest")
    /\ UNCHANGED <<flash, eState, pxC>>

StartsTransfer ==
    /\ streams' = streams \cup {activeJob}
    /\ pxC' = FileFor(activeJob)
    /\ \E f \in Failing({"erase"}) :
         LET created == prvPAL_CreateFileForRx(flash, f)
         IN  /\ Spends(f)
             /\ flash' = created.flash
             /\ IF created.ok THEN eState' = "Active" /\ GoesTo("messages")
                ELSE Calls("Aborted", "selftest") /\ UNCHANGED eState

prvProcessOTAJobMsg ==
    /\ pc = "prepare"
    /\ IF prvPAL_GetPlatformImageState(flash) = "PendingCommit"
       THEN ReturnsBareContext
       ELSE CannotReceive \/ StartsTransfer
    /\ UNCHANGED <<boot, eImageState, activeJob, clientToken, xInSelfTest,
                   selfTestTimer, ulReqCounter, mailVars, bits, msg, jobs, asked,
                   inFlight>>

\* Without a file the job may be in self test: the application tests the image
\* and sets its state, from the callback.
StartSelfTest ==
    /\ pc = "selftest"
    /\ IF eImageState # "Testing"
       THEN GoesTo("messages") /\ UNCHANGED selfTestTimer
       ELSE /\ OTA_CheckForSelfTest
            /\ IF prvPAL_GetPlatformImageState(flash) = "PendingCommit"
               THEN \E v \in Verdicts :
                      Calls(v, IF v = "Accepted" THEN "accepted" ELSE "messages")
               ELSE Calls("Rejected", "reset")
    /\ UNCHANGED <<deviceVars, eState, eImageState, activeJob, clientToken,
                   xInSelfTest, ulReqCounter, pxC, mailVars, bits, msg, serviceVars>>

-----------------------------------------------------------------------------
(* A stream message: prvIngestDataBlock and what the task does about it.   *)

\* What the rest of the step does when the transfer goes on.
Continues(f, file) ==
    /\ flash' = f
    /\ pxC' = [file EXCEPT !.momentum = 0, !.timer = "running"]
    /\ GoesTo("messages")
    /\ UNCHANGED <<jobs, activeJob, streams>>

\* The transfer is over: the platform rejects the image, the job has failed.
TransferFails(f, failing) ==
    /\ flash' = prvPAL_SetPlatformImageState(f, "Rejected", failing).flash
    /\ Reported(activeJob, "Failed", "publish" \notin failing)
    /\ prvOTA_Close(failing)
    /\ activeJob' = NoJob
    /\ GoesTo("messages")

\* The image is complete and authentic: the job is ready for self test, and the
\* application activates the image by a reset, now or later.
TransferCompletes(f, failing) ==
    /\ flash' = f
    /\ Reported(activeJob, "SelfTest", "publish" \notin failing)
    /\ prvOTA_Close(failing)
    /\ activeJob' = NoJob
    /\ GoesTo("reset") \/ GoesTo("messages")

LastBlock(f, failing) ==
    LET closed == prvPAL_CloseFile(f, pxC.job, failing)
    IN  IF closed.ok THEN TransferCompletes(closed.flash, failing)
        ELSE TransferFails(closed.flash, failing)

BugPrvIngestDataBlock(failing) ==   \* mutant: a block counts as received before it is written
    LET b == msg.block
        write == prvPAL_WriteBlock(flash, b, msg.job, failing)
    IN  IF pxC.remaining = {b} THEN LastBlock(write.flash, failing)
        ELSE Continues(write.flash, [pxC EXCEPT !.remaining = @ \ {b}])

\* The block's number says where it goes, and its size whether it fits there; that
\* it is of another file is not seen.
Fits(block, j) ==
    IF block.job = j THEN {TRUE}
    ELSE IF block.block \in BlocksOf[j] THEN BOOLEAN ELSE {FALSE}

prvIngestDataBlock(failing) ==
    LET b == msg.block
        write == prvPAL_WriteBlock(flash, b, msg.job, failing)
    IN  IF ~pxC.bitmap THEN TransferFails(flash, failing)
        ELSE \E fits \in Fits(msg, pxC.job) :
               IF ~fits THEN TransferFails(flash, failing)
               ELSE IF b \notin pxC.remaining THEN Continues(flash, pxC)
               ELSE IF ~write.ok THEN TransferFails(flash, failing)
               ELSE IF pxC.remaining = {b} THEN LastBlock(write.flash, failing)
               ELSE Continues(write.flash, [pxC EXCEPT !.remaining = @ \ {b}])

IngestMessage ==
    /\ pc = "ingest"
    /\ IF pxC # NoFile /\ ~xInSelfTest
       THEN \E f \in Failing({"write", "erase", "verify", "header", "trailer", "publish",
                               "unsubscribe"}) :
              Spends(f) /\ prvIngestDataBlock(f)
       ELSE /\ GoesTo("messages")
            /\ UNCHANGED <<flash, budget, pxC, jobs, activeJob, streams>>
    /\ UNCHANGED <<boot, eState, eImageState, clientToken, xInSelfTest, selfTestTimer,
                   ulReqCounter, mailVars, bits, msg, asked, inFlight>>

-----------------------------------------------------------------------------
(* Timers, shutdown and resets.                                            *)

prvRequestTimer_Callback ==
    /\ pxC.timer = "running" /\ pc # "halted"
    /\ pxC' = [pxC EXCEPT !.timer = "stopped"]
    /\ events' = events \cup {"reqTimeout"}
    /\ UNCHANGED <<deviceVars, agentVars, queue, arriving, taskVars, serviceVars>>

\* prvAgentShutdownCleanup: everything is closed and the queue is emptied.
prvAgentShutdownCleanup ==
    /\ pc = "shutdown"
    /\ eState' = "ShuttingDown" /\ selfTestTimer' = "none"
    /\ \E f \in Failing({"unsubscribe"}) : Spends(f) /\ prvOTA_Close(f)
    /\ activeJob' = NoJob
    /\ queue' = <<>>
    /\ GoesTo("delete")
    /\ UNCHANGED <<flash, boot, eImageState, clientToken, xInSelfTest, ulReqCounter,
                   events, arriving, bits, msg, jobs, asked, inFlight>>

\* Then the event group is deleted and the context cleared.
TaskEnds ==
    /\ pc = "delete"
    /\ pc' = "off"
    /\ ClearedAgent
    /\ UNCHANGED <<deviceVars, xInSelfTest, ulReqCounter, arriving, serviceVars>>

\* The device starts again: the bootloader, then a program with an empty memory.
Restarts(failing) ==
    /\ LET next == prvBOOT_ValidateImages(flash, failing)
       IN  /\ flash' = next.flash /\ boot' = next.boot
           /\ pc' = IF next.boot = "run" THEN "create" ELSE "dead"
    /\ ClearedAgent
    /\ arriving' = NoMsg /\ xInSelfTest' = FALSE /\ ulReqCounter' = 0
    /\ streams' = {} /\ inFlight' = {} /\ asked' = "no"
    /\ UNCHANGED jobs

Reset == \E f \in Failing({"write", "erase"}) : Spends(f) /\ Restarts(f)

\* prvResetDevice, or the application's call of OTA_ActivateNewImage.
prvResetDevice == pc = "reset" /\ Reset

\* The application activates later an image it was told about.
ActivateLater == pc = "wait" /\ flash["upper"].flag = "New" /\ Reset

prvSelfTestTimer_Callback == selfTestTimer = "running" /\ pc # "halted" /\ Reset

BugWatchdogExpires ==   \* mutant: the program stops the watchdog when its agent is up
    boot = "run" /\ flash["lower"].flag # "Valid" /\ pc = "create" /\ Reset

\* The bootloader starts the watchdog when it launches an image for the first
\* time, and only the commit of the image stops it.
WatchdogExpires == boot = "run" /\ flash["lower"].flag # "Valid" /\ Reset

PowerCut == "power" \in Faults /\ boot = "run" /\ SpendsOne /\ Restarts({})

-----------------------------------------------------------------------------
Task ==
    \/ TaskStarts \/ WaitBits \/ HandleUserAbort \/ HandleRequestTimeout
    \/ TakeMessage \/ EndOfLoop
    \/ SetImageState \/ ReportImageState
    \/ prvParseJobDoc \/ prvProcessOTAJobMsg \/ StartSelfTest \/ IngestMessage
    \/ prvAgentShutdownCleanup \/ TaskEnds \/ prvResetDevice

Users == OTA_AgentInit \/ OTA_AgentShutdown \/ OTA_AbortImage \/ OTA_CheckForUpdate \/ ActivateLater

Services ==
    \/ ServiceAnswers \/ ServiceNotifies \/ StreamServes \/ Lost
    \/ \E j \in Jobs : ServiceCancels(j)

Next ==
    \/ Task \/ Users \/ Services \/ PowerCut \/ WatchdogExpires
    \/ prvOTAPublishCallback \/ prvRequestTimer_Callback \/ prvSelfTestTimer_Callback

Spec == Init /\ [][Next]_vars

\* Fairness: FreeRTOS runs the OTA task and the MQTT task whenever they can run,
\* and its timers expire.
Fairness ==
    /\ WF_vars(Task) /\ WF_vars(prvOTAPublishCallback)
    /\ WF_vars(prvRequestTimer_Callback) /\ WF_vars(prvSelfTestTimer_Callback)
    /\ WF_vars(WatchdogExpires)

FairSpec == Spec /\ Fairness

-----------------------------------------------------------------------------
(* Properties.                                                             *)

Files == [job : Jobs \cup {NoJob}, bitmap : BOOLEAN, remaining : SUBSET Blocks,
          momentum : 0 .. OTA_MAX_STREAM_REQUEST_MOMENTUM,
          timer : {"none", "running", "stopped"}]

Messages == JobDocs \cup StreamMsgs
Bits     == {"msgReady", "shutdown", "reqTimeout", "userAbort"}
States   == {"Unknown", "Testing", "Accepted", "Rejected", "Aborted"}
Statuses == Final \cup {"Queued", "SelfTest"}

AgentTypes ==
    /\ eState \in {"NotReady", "Ready", "Active", "ShuttingDown"}
    /\ eImageState \in States
    /\ activeJob \in Jobs \cup {NoJob}
    /\ clientToken \in {"null", "zero", "nonzero"}
    /\ xInSelfTest \in BOOLEAN /\ selfTestTimer \in {"none", "running", "stopped"}
    /\ pxC \in Files
    /\ ulReqCounter \in {0, 1}

TaskTypes ==
    /\ pc \in {"create", "off", "dead", "halted", "wait", "abort", "timeout", "messages",
               "ingest", "parse", "prepare", "selftest", "set", "report", "shutdown",
               "delete", "reset"}
    /\ ret \in {"wait", "messages", "parse", "selftest", "accepted", "reset"}
    /\ setting \in States
    /\ bits \subseteq Bits

MailTypes ==
    /\ queue \in Seq(Messages) /\ Len(queue) <= OTA_NUM_MSG_Q_ENTRIES
    /\ events \subseteq Bits
    /\ msg \in Messages \cup {NoMsg} /\ arriving \in Messages \cup {NoMsg}

ServiceTypes ==
    /\ jobs \in [Jobs -> [status : Statuses, updater : Nat]]
    /\ asked \in {"no", "zero", "nonzero"}
    /\ streams \subseteq Jobs /\ inFlight \subseteq Jobs \X Blocks

\* Every variable holds a value of its type, and the queue never overflows.
TypeOK ==
    /\ flash \in [Banks -> Bank] /\ boot \in {"run", "default", "error"}
    /\ AgentTypes /\ TaskTypes /\ MailTypes /\ ServiceTypes

\* What the bitmap says is what the flash holds: while a file is received, a block
\* is missing exactly when nothing was written where it goes.
BitmapMatchesFlash ==
    pxC.bitmap /\ pc \notin {"set", "report"} =>
        \A b \in BlocksOf[pxC.job] :
            b \in pxC.remaining <=> flash["upper"].body[b] = NoData

\* A job is reported ready for self test only when a bank carries its own image,
\* whole and marked, although blocks of another job's file may have come between.
NewImageIsAuthentic ==
    [][\A j \in Jobs : jobs'[j].status = "SelfTest" /\ jobs[j].status # "SelfTest" =>
         \E k \in Banks : Holds(flash'[k], j) /\ flash'[k].flag # "NoImage"]_vars

\* No message is left in the queue while the task waits without an event for it.
NoMessageStranded ==
    pc = "wait" /\ queue # <<>> => "msgReady" \in events

\* A job that has succeeded has its image committed at that moment.
SucceededMeansCommitted ==
    [][\A j \in Jobs : jobs'[j].status = "Succeeded" /\ jobs[j].status # "Succeeded" =>
         Holds(flash["lower"], j) /\ flash["lower"].flag = "Valid"]_vars

\* An image gets one run on probation: the reset that ends it, for whatever
\* reason, goes back to another image.
ProbationIsOnce ==
    [][InSelfTest(flash) /\ (\E f \in SUBSET {"write", "erase"} : Restarts(f)) =>
         boot' # "run" \/ flash'["lower"].body = flash["upper"].body]_vars

\* A transfer ends, in completion, failure, abort or a reset, whether the stream
\* service answers or not: only a request that could not be published leaves it
\* without a timer, and then nothing asks again.
Stalled == pxC # NoFile /\ pxC.timer = "stopped" /\ pc = "wait" /\ "reqTimeout" \notin events
TransferEnds == pxC # NoFile ~> (pxC = NoFile \/ Stalled)

\* Probation ends, by the commit of the image or the return to another.
ProbationEnds == InSelfTest(flash) ~> ~InSelfTest(flash) \/ boot # "run"
===============================================================================
