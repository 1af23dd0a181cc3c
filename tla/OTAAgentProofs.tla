--------------------------- MODULE OTAAgentProofs ---------------------------
(***************************************************************************)
(* Theorems about OTAAgent, for any images, jobs and blocks, and any       *)
(* number of faults, of calls of the user and of resets.                   *)
(***************************************************************************)
EXTENDS OTAAgent, SequenceTheorems, WellFoundedInduction, TLAPS

-----------------------------------------------------------------------------
(* The inductive invariant.                                                 *)

\* Where the OTA task is not running, nothing is left of its context; where it is,
\* the bootloader has launched an image.
ControlInv ==
    /\ pc \in {"create", "off", "dead", "halted"} =>
          pxC = NoFile /\ queue = <<>> /\ activeJob = NoJob /\ msg = NoMsg
    /\ pc = "dead" <=> boot # "run"
    /\ pc = "dead" => arriving = NoMsg
    /\ pc = "dead" => selfTestTimer = "none"

\* Which message each part of the loop is about, and where the task returns to.
LoopInv ==
    /\ pc = "ingest" => msg \in StreamMsgs
    /\ pc \in {"parse", "prepare"} => msg \in JobDocs
    /\ pc \in {"set", "report"} => ret # "wait"
    /\ pc \in {"set", "report"} /\ ret = "parse" => msg \in JobDocs
    /\ pc \in {"set", "report"} /\ setting = "Testing" => ret = "selftest"
    /\ pc = "prepare" => activeJob # NoJob

\* A job message is looked at without a file, and only an abort takes place with one.
\* What is received is the file of the active job.
FileInv ==
    /\ pc \in {"parse", "prepare", "selftest"} => pxC = NoFile
    /\ pc \in {"set", "report"} => setting = "Aborted" \/ pxC = NoFile
    /\ pxC.bitmap => pxC.job \in Jobs /\ activeJob = pxC.job
    /\ pxC.remaining # {} => pxC.bitmap
    /\ pxC.bitmap => pxC.remaining \subseteq BlocksOf[pxC.job]

\* A message in the queue has its event, which the task has not yet seen or has
\* seen in the present turn of its loop.
EventInv ==
    queue # <<>> => "msgReady" \in events \/ ("msgReady" \in bits /\ pc # "wait")

\* The image that runs is whole; the bank a file is received into has no header.
FlashInv ==
    /\ boot = "run" => Authentic(flash["lower"]) /\ flash["lower"].flag # "NoImage"
    /\ pxC.bitmap /\ pc \notin {"set", "report"} => flash["upper"].flag = "NoImage"

Mail == {msg, arriving} \cup {queue[k] : k \in 1 .. Len(queue)}

JobOf(m) == IF m.type = "job" THEN m.job ELSE NoJob

\* The job is the active one, or the subject of a document on its way to the task.
Known(i) == i = activeJob \/ \E m \in Mail : JobOf(m) = i

Done(i) == jobs[i].status \in Final
Tests(i) == jobs[i].status = "SelfTest"

\* The service names a job only when the ones before it are done, ...
EarlierAreDone ==
    \A i, j \in Jobs : (Known(j) \/ Tests(j)) /\ Version[i] < Version[j] => Done(i)

\* ... and one in self test before all others.
TestComesFirst ==
    \A i, j \in Jobs : Tests(j) /\ (Known(i) \/ Tests(i)) => i = j

\* What is behind the job i on the way to the task: the same, or i is done.
Settled(i, j) == i \in Jobs /\ j \in Jobs /\ i # j => Done(i)

MailInOrder ==
    /\ Settled(activeJob, JobOf(msg)) /\ Settled(activeJob, JobOf(arriving))
    /\ Settled(JobOf(msg), JobOf(arriving))
    /\ \A k \in 1 .. Len(queue) :
          /\ Settled(activeJob, JobOf(queue[k])) /\ Settled(JobOf(msg), JobOf(queue[k]))
          /\ Settled(JobOf(queue[k]), JobOf(arriving))
          /\ \A l \in 1 .. Len(queue) : k < l => Settled(JobOf(queue[k]), JobOf(queue[l]))

JobsInv == EarlierAreDone /\ TestComesFirst /\ MailInOrder

\* The image of a bank is that of the job, or not newer than the version u.
NoNewer(bank, j, u) ==
    bank.flag # "NoImage" /\ Authentic(bank) => Holds(bank, j) \/ Version[ImageOf(bank)] <= u

\* While a job is in self test, no bank has an image newer than the one that
\* received the job's, save the job's own.
BanksInv ==
    \A j \in Jobs : Tests(j) => \A k \in Banks : NoNewer(flash[k], j, jobs[j].updater)

\* A document that says so was made when the job was in self test.
DocFits(m) ==
    m.type = "job" /\ m.selfTest =>
        /\ m.job \in Jobs /\ jobs[m.job].status # "Queued"
        /\ Tests(m.job) =>
              /\ jobs[m.job].updater \in {m.updater, RunningVersion}
              /\ NoNewer(flash["lower"], m.job, m.updater)

DocsInv == \A m \in Mail : DocFits(m)

Tested ==
    /\ activeJob \in Jobs /\ jobs[activeJob].status # "Queued"
    /\ Tests(activeJob) =>
          Holds(flash["lower"], activeJob) /\ jobs[activeJob].updater <= RunningVersion

VerdictInv ==
    /\ eImageState = "Testing" =>
          /\ Tested
          /\ \/ pc = "report" /\ setting = "Testing"
             \/ pc = "selftest"
             \/ pc = "set" /\ setting \in {"Accepted", "Rejected"}
    /\ pc \in {"set", "report"} /\ setting \in {"Testing", "Accepted"} => Tested
    /\ pc = "report" /\ setting = "Accepted" => flash["lower"].flag = "Valid"

IInv ==
    /\ TypeOK /\ ControlInv /\ LoopInv /\ FileInv /\ EventInv /\ FlashInv
    /\ BitmapMatchesFlash /\ JobsInv /\ BanksInv /\ DocsInv /\ VerdictInv

-----------------------------------------------------------------------------
(* What the banks hold, and what the operations on them leave.              *)

LEMMA ImagesAreApart ==
    ASSUME NEW bank, NEW i \in Images, NEW j \in Images, Holds(bank, i), Holds(bank, j)
    PROVE  i = j
BY DataAssumption DEF Holds

LEMMA ImageOfBank ==
    ASSUME NEW bank, Authentic(bank)
    PROVE  ImageOf(bank) \in Images /\ Holds(bank, ImageOf(bank))
BY DEF Authentic, ImageOf

LEMMA ImageIsHeld ==
    ASSUME NEW bank, NEW i \in Images, Holds(bank, i)
    PROVE  Authentic(bank) /\ ImageOf(bank) = i
<1>1. Authentic(bank)
  BY DEF Authentic
<1> QED BY <1>1, ImageOfBank, ImagesAreApart

LEMMA VersionOfBank ==
    ASSUME NEW bank, Authentic(bank)
    PROVE  Version[ImageOf(bank)] \in Nat
BY ImageOfBank, ImagesAssumption

\* The header of a bank does not matter for what it holds.
LEMMA SameBody ==
    ASSUME NEW b, NEW c, b.body = c.body
    PROVE  /\ \A i : Holds(b, i) <=> Holds(c, i)
           /\ Authentic(b) <=> Authentic(c)
           /\ Authentic(b) => ImageOf(b) = ImageOf(c)
<1>1. \A i : Holds(b, i) <=> Holds(c, i)
  BY DEF Holds
<1>2. Authentic(b) <=> Authentic(c)
  BY <1>1 DEF Authentic
<1>3. ASSUME Authentic(b) PROVE ImageOf(b) = ImageOf(c)
  BY <1>1, <1>2, <1>3, ImageOfBank, ImagesAreApart
<1> QED BY <1>1, <1>2, <1>3

LEMMA ErasedIsNotAuthentic ==
    ASSUME NEW bank, bank.body = NoBlocks
    PROVE  ~Authentic(bank)
BY DataAssumption DEF Authentic, Holds, NoBlocks

LEMMA ErasedBankType ==
    ErasedBank \in Bank /\ ErasedBank.flag = "NoImage" /\ ErasedBank.body = NoBlocks
BY DEF ErasedBank, NoBlocks, Bank, Flags

LEMMA BankFields ==
    ASSUME NEW fl \in [Banks -> Bank], NEW k \in Banks
    PROVE  /\ fl[k] \in Bank /\ fl[k].flag \in Flags
           /\ fl[k].body \in [Blocks -> Images \cup {NoData}]
BY DEF Bank

\* What the agent does to the flash while it runs leaves the running image, whose
\* mark changes only when its self test ends.
KeepsLower(f, g) ==
    /\ g["lower"].body = f["lower"].body
    /\ \/ g["lower"].flag = f["lower"].flag
       \/ InSelfTest(f) /\ g["lower"].flag \in {"Valid", "Invalid"}

LEMMA ErasedUpdateBank ==
    ASSUME NEW fl \in [Banks -> Bank], NEW failing
    PROVE  LET g == AWS_FlashEraseUpdateBank(fl, failing)
           IN  /\ g \in [Banks -> Bank] /\ g["lower"] = fl["lower"]
               /\ g["upper"] \in {fl["upper"], ErasedBank}
               /\ "erase" \notin failing => g["upper"] = ErasedBank
BY ErasedBankType DEF AWS_FlashEraseUpdateBank, Banks

LEMMA MarkedBank ==
    ASSUME NEW fl \in [Banks -> Bank], NEW k \in Banks, NEW flag \in Flags
    PROVE  LET g == [fl EXCEPT ![k].flag = flag]
           IN  /\ g \in [Banks -> Bank]
               /\ g[k].flag = flag /\ g[k].body = fl[k].body
               /\ \A o \in Banks : o # k => g[o] = fl[o]
<1>1. fl[k] \in Bank
  OBVIOUS
<1>2. [fl[k] EXCEPT !.flag = flag] \in Bank
  BY <1>1 DEF Bank
<1> QED BY <1>1, <1>2 DEF Bank

LEMMA PlatformImageState ==
    ASSUME NEW fl \in [Banks -> Bank], NEW s, NEW failing
    PROVE  LET pal == prvPAL_SetPlatformImageState(fl, s, failing)
           IN  /\ pal.flash \in [Banks -> Bank] /\ KeepsLower(fl, pal.flash)
               /\ pal.flash["upper"] \in {fl["upper"], ErasedBank}
               /\ s = "Testing" => pal.ok /\ pal.flash = fl
               /\ s = "Accepted" /\ pal.ok => pal.flash["lower"].flag = "Valid"
<1> DEFINE pal == prvPAL_SetPlatformImageState(fl, s, failing)
           Mark(flag) == IF "write" \notin failing THEN [fl EXCEPT !["lower"].flag = flag] ELSE fl
<1>0. "lower" \in Banks /\ "upper" \in Banks /\ {"Valid", "Invalid"} \subseteq Flags
  BY DEF Banks, Flags
<1>1. CASE s = "Testing"
  BY <1>1 DEF prvPAL_SetPlatformImageState, KeepsLower
<1>2. CASE s = "Accepted" /\ InSelfTest(fl) /\ "write" \notin failing
  <2> DEFINE m == [fl EXCEPT !["lower"].flag = "Valid"]
  <2>1. /\ m \in [Banks -> Bank] /\ m["lower"].flag = "Valid"
        /\ m["lower"].body = fl["lower"].body /\ m["upper"] = fl["upper"]
    BY <1>0, MarkedBank
  <2>2. pal.flash = AWS_FlashEraseUpdateBank(m, failing)
    BY <1>2 DEF prvPAL_SetPlatformImageState
  <2> HIDE DEF m, pal
  <2>3. /\ pal.flash \in [Banks -> Bank] /\ pal.flash["lower"] = m["lower"]
        /\ pal.flash["upper"] \in {m["upper"], ErasedBank}
    BY <2>1, <2>2, ErasedUpdateBank
  <2> QED BY <1>2, <2>1, <2>3 DEF KeepsLower, pal
<1>3. CASE s = "Accepted" /\ InSelfTest(fl) /\ "write" \in failing
  BY <1>3 DEF prvPAL_SetPlatformImageState, KeepsLower
<1>4. CASE s = "Accepted" /\ ~InSelfTest(fl)
  BY <1>4 DEF prvPAL_SetPlatformImageState, KeepsLower
<1>5. CASE s \in {"Rejected", "Aborted"} /\ InSelfTest(fl)
  <2>1. CASE "write" \in failing
    <3>1. pal.flash = fl
      BY <1>5, <2>1 DEF prvPAL_SetPlatformImageState
    <3> QED BY <1>5, <3>1 DEF KeepsLower
  <2>2. CASE "write" \notin failing
    <3> DEFINE m == [fl EXCEPT !["lower"].flag = "Invalid"]
    <3>1. pal.flash = m
      BY <1>5, <2>2 DEF prvPAL_SetPlatformImageState
    <3>2. /\ m \in [Banks -> Bank] /\ m["lower"].flag = "Invalid"
          /\ m["lower"].body = fl["lower"].body /\ m["upper"] = fl["upper"]
      BY <1>0, MarkedBank
    <3> HIDE DEF m, pal
    <3> QED BY <1>5, <3>1, <3>2 DEF KeepsLower, pal
  <2> QED BY <2>1, <2>2
<1>6. CASE s # "Testing" /\ s # "Accepted" /\ ~(s \in {"Rejected", "Aborted"} /\ InSelfTest(fl))
  <2>1. pal.flash = AWS_FlashEraseUpdateBank(fl, failing)
    BY <1>6 DEF prvPAL_SetPlatformImageState
  <2> HIDE DEF pal
  <2> QED BY <1>6, <2>1, ErasedUpdateBank DEF KeepsLower, pal
<1> QED BY <1>1, <1>2, <1>3, <1>4, <1>5, <1>6

LEMMA WrittenBlock ==
    ASSUME NEW fl \in [Banks -> Bank], NEW b \in Blocks, NEW data \in Images, NEW failing
    PROVE  LET write == prvPAL_WriteBlock(fl, b, data, failing)
               g == write.flash
           IN  /\ g \in [Banks -> Bank] /\ g["lower"] = fl["lower"]
               /\ g["upper"].flag = fl["upper"].flag
               /\ write.ok => g["upper"].body = [fl["upper"].body EXCEPT ![b] = data]
<1> DEFINE write == prvPAL_WriteBlock(fl, b, data, failing)
           body == [fl["upper"].body EXCEPT ![b] = data]
           g == [fl EXCEPT !["upper"].body[b] = data]
<1>0. "lower" \in Banks /\ "upper" \in Banks
  BY DEF Banks
<1>1. body \in [Blocks -> Images \cup {NoData}]
  BY <1>0, BankFields
<1>2. /\ g \in [Banks -> Bank] /\ g["lower"] = fl["lower"]
      /\ g["upper"].flag = fl["upper"].flag /\ g["upper"].body = body
  <2>1. g = [fl EXCEPT !["upper"] = [fl["upper"] EXCEPT !.body = body]]
    BY <1>0
  <2>2. [fl["upper"] EXCEPT !.body = body] \in Bank
    BY <1>0, <1>1 DEF Bank
  <2>3. fl["upper"] \in Bank
    BY <1>0
  <2>4. /\ [fl["upper"] EXCEPT !.body = body].flag = fl["upper"].flag
        /\ [fl["upper"] EXCEPT !.body = body].body = body
    BY <2>3 DEF Bank
  <2> HIDE DEF body, g
  <2> QED BY <1>0, <2>1, <2>2, <2>3, <2>4
<1>3. /\ write.flash = IF "write" \in failing THEN fl ELSE g
      /\ write.ok => "write" \notin failing
  BY DEF prvPAL_WriteBlock
<1> HIDE DEF write, g, body
<1>4. /\ write.flash \in [Banks -> Bank] /\ write.flash["lower"] = fl["lower"]
      /\ write.flash["upper"].flag = fl["upper"].flag
      /\ write.ok => write.flash["upper"].body = body
  BY <1>2, <1>3
<1> QED BY <1>4 DEF write, body

\* A file that is closed with success is the image, marked.  Otherwise nothing that
\* verifies gets a header.
LEMMA ClosedFile ==
    ASSUME NEW fl \in [Banks -> Bank], NEW image, NEW failing
    PROVE  LET closed == prvPAL_CloseFile(fl, image, failing)
               g == closed.flash
           IN  /\ g \in [Banks -> Bank] /\ g["lower"] = fl["lower"]
               /\ closed.ok => Holds(g["upper"], image) /\ g["upper"].flag = "New"
               /\ ~closed.ok => \/ g["upper"] \in {fl["upper"], ErasedBank}
                                \/ g["upper"].body = NoBlocks
<1> DEFINE closed == prvPAL_CloseFile(fl, image, failing)
           m == [fl EXCEPT !["upper"].flag = "New"]
           e == [flag |-> "New", body |-> NoBlocks]
           n == [fl EXCEPT !["upper"] = e]
<1>0. "lower" \in Banks /\ "upper" \in Banks /\ "New" \in Flags
  BY DEF Banks, Flags
<1>1. CASE "verify" \notin failing /\ ~Holds(fl["upper"], image)
  <2>1. closed.ok = FALSE /\ closed.flash = AWS_FlashEraseUpdateBank(fl, failing)
    BY <1>1 DEF prvPAL_CloseFile
  <2> HIDE DEF closed
  <2> QED BY <2>1, ErasedUpdateBank DEF closed
<1>2. CASE \/ "verify" \in failing
           \/ Holds(fl["upper"], image) /\ "header" \in failing
  <2>1. closed.ok = FALSE /\ closed.flash = fl
    BY <1>2 DEF prvPAL_CloseFile
  <2> HIDE DEF closed
  <2> QED BY <2>1 DEF closed
<1>3. CASE /\ "verify" \notin failing /\ Holds(fl["upper"], image)
           /\ failing \cap {"header", "trailer"} = {"trailer"}
  <2>1. "header" \notin failing
    BY <1>3
  <2>2. closed.ok = FALSE /\ closed.flash = n
    BY <1>3, <2>1 DEF prvPAL_CloseFile
  <2>3. e \in Bank /\ e.body = NoBlocks
    BY <1>0, ErasedBankType DEF Bank
  <2> HIDE DEF e
  <2>4. n \in [Banks -> Bank] /\ n["lower"] = fl["lower"] /\ n["upper"] = e
    BY <1>0, <2>3
  <2> HIDE DEF closed, n
  <2> QED BY <2>2, <2>3, <2>4 DEF closed
<1>4. CASE /\ "verify" \notin failing /\ Holds(fl["upper"], image)
           /\ "header" \notin failing
           /\ failing \cap {"header", "trailer"} # {"trailer"}
  <2>1. closed.ok = TRUE /\ closed.flash = m
    BY <1>4 DEF prvPAL_CloseFile
  <2>2. /\ m \in [Banks -> Bank] /\ m["lower"] = fl["lower"] /\ m["upper"].flag = "New"
        /\ m["upper"].body = fl["upper"].body
    BY <1>0, MarkedBank
  <2>3. Holds(m["upper"], image)
    BY <1>4, <2>2, SameBody
  <2> HIDE DEF closed, m
  <2> QED BY <2>1, <2>2, <2>3 DEF closed
<1> QED BY <1>1, <1>2, <1>3, <1>4

-----------------------------------------------------------------------------
(* The bootloader.                                                          *)

LEMMA InvalidatedFlash ==
    ASSUME NEW fl \in [Banks -> Bank], NEW failing
    PROVE  /\ Invalidated(fl, failing) \in [Banks -> Bank]
           /\ \A k \in Banks :
                 /\ prvValidateImage(fl[k]) => Invalidated(fl, failing)[k] = fl[k]
                 /\ \/ Invalidated(fl, failing)[k] = fl[k]
                    \/ Invalidated(fl, failing)[k].flag = "NoImage"
<1>1. ASSUME NEW k \in Banks
      PROVE  prvInvalidateImage(fl[k]) \in Bank /\ prvInvalidateImage(fl[k]).flag = "NoImage"
  <2>1. fl[k].body \in [Blocks -> Images \cup {NoData}] /\ NoBlocks \in [Blocks -> Images \cup {NoData}]
    BY BankFields DEF NoBlocks
  <2>2. "NoImage" \in Flags
    BY DEF Flags
  <2> DEFINE body == IF ENABLE_ERASE_INVALID THEN NoBlocks ELSE fl[k].body
  <2>3. body \in [Blocks -> Images \cup {NoData}]
    BY <2>1
  <2>4. prvInvalidateImage(fl[k]) = [flag |-> "NoImage", body |-> body]
    BY DEF prvInvalidateImage
  <2> HIDE DEF body
  <2> QED BY <2>2, <2>3, <2>4 DEF Bank
<1> QED BY <1>1 DEF Invalidated

LEMMA ChosenIsCandidate ==
    ASSUME NEW fl, Candidates(fl) # {}
    PROVE  Chosen(fl) \in Banks /\ prvValidateImage(fl[Chosen(fl)])
BY DEF Chosen, Candidates, Banks

Header(fl, k) == fl[k].flag # "NoImage"

\* The image that is launched verifies, and no bank gets a header or other contents.
LEMMA BootedFlash ==
    ASSUME NEW fl \in [Banks -> Bank], NEW failing
    PROVE  LET next == prvBOOT_ValidateImages(fl, failing)
           IN  /\ next.flash \in [Banks -> Bank]
               /\ next.boot \in {"run", "default", "error"}
               /\ next.boot = "run" => Authentic(next.flash["lower"]) /\ Header(next.flash, "lower")
               /\ \A k \in Banks : Header(next.flash, k) =>
                     \E o \in Banks : Header(fl, o) /\ next.flash[k].body = fl[o].body
<1> DEFINE next == prvBOOT_ValidateImages(fl, failing)
           inv == Invalidated(fl, failing)
           c == Chosen(fl)
           run == IF inv[c].flag = "New" /\ "write" \notin failing
                  THEN [inv[c] EXCEPT !.flag = "CommitPending"] ELSE inv[c]
           other == CHOOSE o \in Banks : o # c
           both == [lower |-> run, upper |-> inv[other]]
<1>0. "lower" \in Banks /\ "upper" \in Banks /\ Banks = {"lower", "upper"}
  BY DEF Banks
<1>1. /\ inv \in [Banks -> Bank]
      /\ \A k \in Banks : /\ prvValidateImage(fl[k]) => inv[k] = fl[k]
                          /\ inv[k] = fl[k] \/ inv[k].flag = "NoImage"
  BY InvalidatedFlash
<1>2. CASE Candidates(fl) = {}
  <2>1. next.flash = inv /\ next.boot \in {"default", "error"}
    BY <1>2 DEF prvBOOT_ValidateImages
  <2> HIDE DEF next, inv
  <2>2. \A k \in Banks : Header(next.flash, k) => Header(fl, k) /\ next.flash[k].body = fl[k].body
    BY <1>1, <2>1 DEF Header
  <2> QED BY <1>1, <2>1, <2>2 DEF next
<1>3. CASE Candidates(fl) # {}
  <2>1. c \in Banks /\ prvValidateImage(fl[c])
    BY <1>3, ChosenIsCandidate
  <2>2. next.boot = "run" /\ next.flash = both
    BY <1>3 DEF prvBOOT_ValidateImages, prvBOOT_ExecuteImage
  <2>3. other \in Banks
    <3>1. \E o \in Banks : o # c
      BY <1>0, <2>1
    <3> QED BY <3>1
  <2>4. inv[c] = fl[c] /\ fl[c].flag \in {"New", "Valid"} /\ Authentic(fl[c]) /\ fl[c] \in Bank
    BY <1>1, <2>1 DEF prvValidateImage
  <2> HIDE DEF next, inv, c, other
  <2>5. run \in Bank /\ run.body = fl[c].body /\ run.flag # "NoImage"
    BY <2>4 DEF Bank, Flags
  <2>6. Authentic(run)
    BY <2>4, <2>5, SameBody
  <2> HIDE DEF run
  <2>7. both \in [Banks -> Bank] /\ both["lower"] = run /\ both["upper"] = inv[other]
    BY <1>0, <1>1, <2>3, <2>5
  <2> HIDE DEF both
  <2>8. Header(both, "lower") /\ Header(fl, c)
    BY <2>4, <2>5, <2>7 DEF Header
  <2>9. Header(both, "upper") => Header(fl, other) /\ both["upper"].body = fl[other].body
    BY <1>1, <2>3, <2>7 DEF Header
  <2>10. \A k \in Banks : Header(both, k) =>
            \E o \in Banks : Header(fl, o) /\ both[k].body = fl[o].body
    BY <1>0, <2>1, <2>3, <2>5, <2>7, <2>8, <2>9
  <2> QED BY <2>2, <2>6, <2>7, <2>8, <2>10 DEF next
<1> QED BY <1>2, <1>3

-----------------------------------------------------------------------------
(* Types of messages, files and jobs.                                       *)

LEMMA JobsAreImages == Jobs \subseteq Images /\ NoJob \notin Jobs
BY JobsAssumption

LEMMA JobDocFields ==
    ASSUME NEW m \in JobDocs
    PROVE  /\ m.type = "job" /\ m.job \in Jobs \cup {NoJob} /\ m.selfTest \in BOOLEAN
           /\ m.updater \in Nat /\ m.token \in {"null", "zero", "nonzero"}
           /\ JobOf(m) = m.job
<1>1. /\ m.type = "job" /\ m.job \in Jobs \cup {NoJob} /\ m.selfTest \in BOOLEAN
      /\ m.updater \in Nat /\ m.token \in {"null", "zero", "nonzero"}
  BY DEF JobDocs
<1> QED BY <1>1 DEF JobOf

LEMMA StreamMsgFields ==
    ASSUME NEW m \in StreamMsgs
    PROVE  m.type = "stream" /\ m.job \in Jobs /\ m.block \in Blocks /\ JobOf(m) = NoJob
<1>1. m.type = "stream" /\ m.job \in Jobs /\ m.block \in Blocks
  BY DEF StreamMsgs
<1> QED BY <1>1 DEF JobOf

LEMMA NoMsgFields == NoMsg.type = "none" /\ JobOf(NoMsg) = NoJob
BY DEF NoMsg, JobOf

LEMMA MessageKinds ==
    ASSUME NEW m \in Messages \cup {NoMsg}
    PROVE  /\ m.type = "job" <=> m \in JobDocs
           /\ m.type = "stream" <=> m \in StreamMsgs
           /\ JobOf(m) \in Jobs \cup {NoJob}
BY JobDocFields, StreamMsgFields, NoMsgFields DEF Messages

LEMMA FileFields ==
    ASSUME NEW file \in Files
    PROVE  /\ file.job \in Jobs \cup {NoJob} /\ file.bitmap \in BOOLEAN
           /\ file.remaining \in SUBSET Blocks
           /\ file.momentum \in 0 .. OTA_MAX_STREAM_REQUEST_MOMENTUM
           /\ file.timer \in {"none", "running", "stopped"}
BY DEF Files

LEMMA NoFileFields ==
    /\ NoFile \in Files
    /\ NoFile.job = NoJob /\ NoFile.bitmap = FALSE /\ NoFile.remaining = {}
    /\ NoFile.timer = "none" /\ NoFile.momentum = 0
<1>1. 0 \in 0 .. OTA_MAX_STREAM_REQUEST_MOMENTUM
  BY BoundsAssumption
<1> QED BY <1>1 DEF NoFile, Files

LEMMA NewFile ==
    ASSUME NEW j \in Jobs
    PROVE  /\ FileFor(j) \in Files
           /\ FileFor(j).job = j /\ FileFor(j).bitmap = TRUE
           /\ FileFor(j).remaining = BlocksOf[j] /\ BlocksOf[j] \subseteq Blocks
<1>1. 0 \in 0 .. OTA_MAX_STREAM_REQUEST_MOMENTUM
  BY BoundsAssumption
<1>2. BlocksOf[j] \in SUBSET Blocks
  BY DataAssumption, JobsAreImages
<1> QED BY <1>1, <1>2 DEF FileFor, Files

LEMMA RunningVersionType ==
    ASSUME FlashInv, boot = "run"
    PROVE  RunningVersion \in Nat
BY VersionOfBank DEF FlashInv, RunningVersion, Running

JobTypes == [status : Statuses, updater : Nat]

\* What a report of the job j changes.
LEMMA ReportedJobs ==
    ASSUME jobs \in [Jobs -> JobTypes], NEW j \in Jobs \cup {NoJob},
           NEW status \in Statuses \ {"Queued"}, status = "SelfTest" => RunningVersion \in Nat,
           NEW sent \in BOOLEAN, Reported(j, status, sent)
    PROVE  /\ jobs' \in [Jobs -> JobTypes]
           /\ \A i \in Jobs : i # j \/ Done(i) => jobs'[i] = jobs[i]
           /\ j \in Jobs => \/ jobs'[j] = jobs[j]
                            \/ /\ jobs'[j].status = status /\ ~Done(j)
                               /\ status = "SelfTest" => jobs'[j].updater = RunningVersion
<1>1. CASE sent /\ j # NoJob /\ jobs[j].status \notin Final
  <2> DEFINE u == IF status = "SelfTest" THEN RunningVersion ELSE 0
             new == [status |-> status, updater |-> u]
  <2>1. u \in Nat /\ (status = "SelfTest" => u = RunningVersion)
    OBVIOUS
  <2>2. jobs' = [jobs EXCEPT ![j] = new] /\ j \in Jobs
    BY <1>1 DEF Reported
  <2> HIDE DEF u
  <2>3. new \in JobTypes /\ new.status = status /\ new.updater = u
    BY <2>1 DEF JobTypes
  <2> HIDE DEF new
  <2>4. jobs' \in [Jobs -> JobTypes] /\ jobs'[j] = new /\ \A i \in Jobs : i # j => jobs'[i] = jobs[i]
    BY <2>2, <2>3
  <2> QED BY <1>1, <2>1, <2>3, <2>4 DEF Done
<1>2. CASE ~(sent /\ j # NoJob /\ jobs[j].status \notin Final)
  BY <1>2 DEF Reported
<1> QED BY <1>1, <1>2

\* The first of some jobs is one of them, and none of the others is older.
LEMMA FirstJob ==
    ASSUME NEW S \in SUBSET Jobs, S # {}
    PROVE  First(S) \in S /\ \A i \in S : Version[First(S)] <= Version[i]
<1> DEFINE R == OpToRel(<, Nat)
           V == {Version[i] : i \in S}
<1>1. V \subseteq Nat /\ V # {}
  BY ImagesAssumption, JobsAreImages
<1>2. PICK v \in V : \A w \in V : <<w, v>> \notin R
  <2> HIDE DEF R, V
  <2> QED BY <1>1, NatLessThanWellFounded, WFMin DEF R
<1>3. R = {p \in Nat \X Nat : p[1] < p[2]}
  BY DEF OpToRel
<1>4. \A w \in V : v <= w
  <2> HIDE DEF R, V
  <2> SUFFICES ASSUME NEW w \in V PROVE ~(w < v)
    BY <1>1
  <2>1. <<w, v>> \in Nat \X Nat /\ <<w, v>>[1] = w /\ <<w, v>>[2] = v
    BY <1>1
  <2> QED BY <1>2, <1>3, <2>1
<1>5. PICK j \in S : Version[j] = v
  OBVIOUS
<1>6. \A i \in S : Version[j] <= Version[i]
  BY <1>4, <1>5
<1> QED BY <1>6 DEF First

LEMMA NextJobIs ==
    ASSUME jobs \in [Jobs -> JobTypes]
    PROVE  \/ NextJob = NoJob
           \/ NextJob \in Jobs /\ Tests(NextJob)
           \/ /\ NextJob \in Jobs /\ jobs[NextJob].status = "Queued"
              /\ \A i \in Jobs : ~Tests(i)
              /\ \A i \in Jobs : jobs[i].status = "Queued" => Version[NextJob] <= Version[i]
<1> DEFINE testing == {j \in Jobs : jobs[j].status = "SelfTest"}
           queued  == {j \in Jobs : jobs[j].status = "Queued"}
<1>1. NextJob = IF testing # {} THEN First(testing)
                ELSE IF queued # {} THEN First(queued) ELSE NoJob
  BY DEF NextJob
<1>2. CASE testing # {}
  <2>1. First(testing) \in testing
    BY <1>2, FirstJob
  <2> QED BY <1>1, <1>2, <2>1 DEF Tests
<1>3. CASE testing = {} /\ queued # {}
  <2>1. First(queued) \in queued /\ \A i \in queued : Version[First(queued)] <= Version[i]
    BY <1>3, FirstJob
  <2>2. NextJob = First(queued)
    BY <1>1, <1>3
  <2> QED BY <1>3, <2>1, <2>2 DEF Tests
<1> QED BY <1>1, <1>2, <1>3

LEMMA JobDocType ==
    ASSUME jobs \in [Jobs -> JobTypes], NEW j \in Jobs \cup {NoJob},
           NEW token \in {"null", "zero", "nonzero"}
    PROVE  /\ JobDoc(j, token) \in JobDocs /\ JobDoc(j, token).job = j
           /\ JobDoc(j, token).selfTest => j \in Jobs /\ Tests(j)
           /\ j \in Jobs => JobDoc(j, token).updater = jobs[j].updater
<1> DEFINE u == IF j = NoJob THEN 0 ELSE jobs[j].updater
           st == j # NoJob /\ jobs[j].status = "SelfTest"
           m == [type |-> "job", job |-> j, token |-> token, selfTest |-> st, updater |-> u]
<1>1. JobDoc(j, token) = m
  BY DEF JobDoc
<1>2. u \in Nat /\ (j \in Jobs => u = jobs[j].updater)
  BY JobsAreImages DEF JobTypes
<1>3. st \in BOOLEAN /\ (st => j \in Jobs /\ Tests(j))
  BY DEF Tests
<1> HIDE DEF u, st
<1>4. m \in JobDocs
  BY <1>2, <1>3 DEF JobDocs
<1> QED BY <1>1, <1>2, <1>3, <1>4

LEMMA EmptyQueue == <<>> \in Seq(Messages) /\ Len(<<>>) = 0
OBVIOUS

LEMMA QueueType ==
    ASSUME MailTypes
    PROVE  /\ queue \in Seq(Messages) /\ Len(queue) \in Nat
           /\ \A k \in 1 .. Len(queue) : queue[k] \in Messages
BY LenProperties, ElementOfSeq DEF MailTypes

-----------------------------------------------------------------------------
(* Type correctness.                                                        *)

LEMMA InitType == Init => TypeOK
<1> SUFFICES ASSUME Init PROVE TypeOK
  OBVIOUS
<1>1. flash \in [Banks -> Bank] /\ boot = "run"
  <2> DEFINE body == [b \in Blocks |-> IF b \in BlocksOf[Factory] THEN Factory ELSE NoData]
             low == [flag |-> "Valid", body |-> body]
  <2>1. body \in [Blocks -> Images \cup {NoData}]
    BY ImagesAssumption
  <2> HIDE DEF body
  <2>2. low \in Bank
    BY <2>1 DEF Bank, Flags
  <2>3. flash = [lower |-> low, upper |-> ErasedBank]
    BY DEF Init, FactoryFlash, body
  <2> HIDE DEF low
  <2> QED BY <2>2, <2>3, ErasedBankType DEF Banks, Init
<1>2. xInSelfTest \in BOOLEAN
  BY Zenon DEF Init
<1>3. AgentTypes
  BY <1>2, NoFileFields DEF Init, AgentTypes, States
<1>4. TaskTypes
  BY DEF Init, TaskTypes, States, Bits
<1>5. MailTypes
  BY EmptyQueue, BoundsAssumption DEF Init, MailTypes, Bits
<1>6. ServiceTypes
  <2>1. [status |-> "Queued", updater |-> 0] \in [status : Statuses, updater : Nat]
    BY DEF Statuses
  <2> QED BY <2>1 DEF Init, ServiceTypes
<1> QED BY <1>1, <1>3, <1>4, <1>5, <1>6 DEF TypeOK

\* Each step keeps the types of what it changes.
AgentAndTaskTypes == AgentTypes /\ TaskTypes
USE DEF AgentAndTaskTypes

LEMMA TaskStartsType == TypeOK /\ TaskStarts => TypeOK'
<1> SUFFICES ASSUME TypeOK, TaskStarts PROVE TypeOK'
  OBVIOUS
<1>1. CASE pc' = "off" /\ UNCHANGED <<agentVars, asked>>
  BY <1>1 DEF TypeOK, TaskStarts, AgentTypes, TaskTypes, MailTypes, ServiceTypes, agentVars, mailVars
<1>2. CASE /\ OTA_CheckForSelfTest /\ eState' = "Ready" /\ pc' = "wait"
           /\ xInSelfTest' = (prvPAL_GetPlatformImageState(flash) = "PendingCommit")
           /\ \E f \in Failing({"publish"}) : Spends(f) /\ Asks(f = {})
           /\ UNCHANGED <<eImageState, activeJob, clientToken>>
  <2>1. xInSelfTest' \in BOOLEAN
    BY <1>2, Zenon
  <2>2. selfTestTimer' \in {"none", "running", "stopped"}
    BY <1>2 DEF OTA_CheckForSelfTest, TypeOK, AgentTypes
  <2>3. asked' \in {"no", "zero", "nonzero"} /\ ulReqCounter' = 1
    BY <1>2 DEF Asks, TypeOK, ServiceTypes
  <2> QED
    BY <1>2, <2>1, <2>2, <2>3
    DEF TypeOK, TaskStarts, AgentTypes, TaskTypes, MailTypes, ServiceTypes, mailVars
<1> QED BY <1>1, <1>2 DEF TaskStarts

LEMMA QuietTaskType ==
    TypeOK /\ (WaitBits \/ HandleUserAbort \/ EndOfLoop) => TypeOK'
<1> SUFFICES ASSUME TypeOK, WaitBits \/ HandleUserAbort \/ EndOfLoop PROVE TypeOK'
  OBVIOUS
<1> USE DEF TypeOK, AgentTypes, TaskTypes, MailTypes, ServiceTypes, agentVars, mailVars,
            deviceVars, serviceVars, taskVars, GoesTo, Calls
<1>1. CASE WaitBits
  BY <1>1 DEF WaitBits, Bits
<1>2. CASE HandleUserAbort
  BY <1>2 DEF HandleUserAbort, States
<1>3. CASE EndOfLoop
  BY <1>3 DEF EndOfLoop
<1> QED BY <1>1, <1>2, <1>3

\* A request for blocks asks for those of the file.
LEMMA RequestType == TypeOK /\ FileInv /\ HandleRequestTimeout => TypeOK'
<1> SUFFICES ASSUME TypeOK, FileInv, HandleRequestTimeout PROVE TypeOK'
  OBVIOUS
<1>1. /\ pxC \in Files /\ pxC.momentum \in 0 .. OTA_MAX_STREAM_REQUEST_MOMENTUM
      /\ pxC.remaining \in SUBSET Blocks /\ pxC.timer \in {"none", "running", "stopped"}
  BY FileFields DEF TypeOK, AgentTypes
<1>2. {pxC.job} \X pxC.remaining \subseteq Jobs \X Blocks
  BY <1>1 DEF FileInv
<1>3. CASE pxC.momentum < OTA_MAX_STREAM_REQUEST_MOMENTUM
  <2>1. PICK f \in Failing({"publish"}) :
           /\ pxC' = [pxC EXCEPT !.momentum = @ + 1,
                                 !.timer = IF f = {} THEN "running" ELSE @]
           /\ inFlight' = IF f = {} THEN inFlight \cup ({pxC.job} \X pxC.remaining)
                          ELSE inFlight
    BY <1>3 DEF HandleRequestTimeout, prvPublishGetStreamMessage
  <2>2. GoesTo("messages")
    BY <1>3 DEF HandleRequestTimeout, prvPublishGetStreamMessage
  <2>3. pxC' \in Files
    <3>1. pxC.momentum + 1 \in 0 .. OTA_MAX_STREAM_REQUEST_MOMENTUM
      BY <1>1, <1>3, BoundsAssumption
    <3> QED BY <1>1, <2>1, <3>1 DEF Files
  <2>4. inFlight' \subseteq Jobs \X Blocks
    BY <1>2, <2>1 DEF TypeOK, ServiceTypes
  <2> QED
    BY <2>2, <2>3, <2>4
    DEF HandleRequestTimeout, GoesTo, TypeOK, AgentTypes, TaskTypes, MailTypes, ServiceTypes,
        agentVars, mailVars
<1>4. CASE ~(pxC.momentum < OTA_MAX_STREAM_REQUEST_MOMENTUM)
  BY <1>4
  DEF HandleRequestTimeout, prvPublishGetStreamMessage, Calls, States, TypeOK, AgentTypes,
      TaskTypes, MailTypes, ServiceTypes, agentVars, mailVars
<1> QED BY <1>3, <1>4

LEMMA TakeMessageType == TypeOK /\ TakeMessage => TypeOK'
<1> SUFFICES ASSUME TypeOK, TakeMessage PROVE TypeOK'
  OBVIOUS
<1>1. /\ msg' \in Messages /\ queue' \in Seq(Messages)
      /\ Len(queue') = Len(queue) - 1 /\ Len(queue) \in Nat
  BY HeadTailProperties, LenProperties DEF TypeOK, MailTypes, TakeMessage
<1>2. MailTypes'
  BY <1>1, BoundsAssumption DEF TypeOK, MailTypes, TakeMessage
<1>3. TaskTypes'
  BY <1>1, MessageKinds DEF TypeOK, TaskTypes, TakeMessage, GoesTo, Calls, States, Messages
<1> QED
  BY <1>2, <1>3
  DEF TypeOK, TakeMessage, AgentTypes, ServiceTypes, agentVars, deviceVars, serviceVars

LEMMA SetImageStateType == TypeOK /\ SetImageState => TypeOK'
<1> SUFFICES ASSUME TypeOK, SetImageState PROVE TypeOK'
  OBVIOUS
<1>1. PICK f \in Failing({"write", "erase"}) :
         /\ flash' = prvPAL_SetPlatformImageState(flash, setting, f).flash
         /\ eImageState' = setting' /\ setting' \in {setting, "Rejected"}
  BY DEF SetImageState
<1>2. flash' \in [Banks -> Bank]
  BY <1>1, PlatformImageState DEF TypeOK
<1> QED
  BY <1>1, <1>2
  DEF TypeOK, SetImageState, AgentTypes, TaskTypes, MailTypes, ServiceTypes, States, mailVars,
      serviceVars

LEMMA ReportType == TypeOK /\ FlashInv /\ ControlInv /\ ReportImageState => TypeOK'
<1> SUFFICES ASSUME TypeOK, FlashInv, ControlInv, ReportImageState PROVE TypeOK'
  OBVIOUS
<1>0. RunningVersion \in Nat
  BY RunningVersionType DEF ControlInv, ReportImageState
<1>1. PICK f \in Failing({"publish", "unsubscribe"}) :
         /\ Reported(activeJob, JobStatus(setting), "publish" \notin f)
         /\ IF setting = "Aborted" THEN prvOTA_Close(f) ELSE UNCHANGED <<pxC, streams>>
  BY DEF ReportImageState
<1>2. jobs' \in [Jobs -> JobTypes]
  <2>1. JobStatus(setting) \in Statuses \ {"Queued"} /\ ("publish" \notin f) \in BOOLEAN
    BY DEF JobStatus, Statuses, Final
  <2> QED BY <1>0, <1>1, <2>1, ReportedJobs DEF TypeOK, AgentTypes, ServiceTypes, JobTypes
<1>3. pxC' \in Files /\ streams' \subseteq Jobs
  BY <1>1, NoFileFields
  DEF TypeOK, AgentTypes, ServiceTypes, prvOTA_Close, prvUnSubscribeFromDataStream
<1>4. xInSelfTest' \in BOOLEAN /\ activeJob' \in Jobs \cup {NoJob}
  BY DEF TypeOK, AgentTypes, ReportImageState
<1>5. AgentTypes'
  BY <1>3, <1>4 DEF TypeOK, AgentTypes, ReportImageState
<1>6. TaskTypes'
  BY DEF TypeOK, TaskTypes, ReportImageState, States
<1> QED
  BY <1>2, <1>3, <1>5, <1>6
  DEF TypeOK, ReportImageState, MailTypes, ServiceTypes, JobTypes, mailVars

LEMMA ParseType == TypeOK /\ LoopInv /\ prvParseJobDoc => TypeOK'
<1> SUFFICES ASSUME TypeOK, LoopInv, prvParseJobDoc PROVE TypeOK'
  OBVIOUS
<1>0. msg \in JobDocs /\ pc = "parse"
  BY DEF LoopInv, prvParseJobDoc
<1>1. PICK token \in TokensRead(msg), f \in Failing({"publish", "unsubscribe"}) :
         /\ clientToken' = token
         /\ \/ /\ Refused(msg) /\ activeJob' = NoJob
               /\ Reported(msg.job, "Failed", "publish" \notin f)
               /\ GoesTo("selftest")
            \/ /\ Ignored(msg) /\ GoesTo("selftest") /\ UNCHANGED <<activeJob, jobs>>
            \/ /\ Taken(msg) /\ activeJob' = msg.job
               /\ IF msg.selfTest THEN SelfTestVerdict(msg, token) ELSE GoesTo("prepare")
               /\ UNCHANGED jobs
         /\ IF pc' = "prepare" THEN UNCHANGED streams
            ELSE prvUnSubscribeFromDataStream(msg.job, f)
  BY DEF prvParseJobDoc
<1>2. clientToken' \in {"null", "zero", "nonzero"}
  BY <1>0, <1>1, JobDocFields DEF TokensRead
<1>3. activeJob' \in Jobs \cup {NoJob}
  BY <1>0, <1>1, JobDocFields DEF TypeOK, AgentTypes
<1>4. jobs' \in [Jobs -> JobTypes]
  <2>1. CASE Reported(msg.job, "Failed", "publish" \notin f)
    <3>1. "Failed" \in Statuses \ {"Queued"} /\ ("publish" \notin f) \in BOOLEAN
      BY DEF Statuses, Final
    <3> QED BY <1>0, <2>1, <3>1, JobDocFields, ReportedJobs DEF TypeOK, ServiceTypes, JobTypes
  <2>2. CASE UNCHANGED jobs
    BY <2>2 DEF TypeOK, ServiceTypes, JobTypes
  <2> QED BY <1>1, <2>1, <2>2
<1>5. streams' \subseteq Jobs
  BY <1>1 DEF TypeOK, ServiceTypes, prvUnSubscribeFromDataStream
<1>6. pc' \in {"selftest", "prepare", "set", "reset"} /\ setting' \in States
      /\ ret' \in {"wait", "messages", "parse", "selftest", "accepted", "reset"}
  BY <1>1 DEF TypeOK, TaskTypes, SelfTestVerdict, GoesTo, Calls, States
<1> QED
  BY <1>2, <1>3, <1>4, <1>5, <1>6
  DEF TypeOK, prvParseJobDoc, AgentTypes, TaskTypes, MailTypes, ServiceTypes, JobTypes, mailVars

LEMMA ProcessType == TypeOK /\ LoopInv /\ prvProcessOTAJobMsg => TypeOK'
<1> SUFFICES ASSUME TypeOK, LoopInv, prvProcessOTAJobMsg PROVE TypeOK'
  OBVIOUS
<1>0. activeJob \in Jobs
  BY DEF LoopInv, prvProcessOTAJobMsg, TypeOK, AgentTypes
<1> USE DEF prvProcessOTAJobMsg, TypeOK, AgentTypes, TaskTypes, MailTypes, ServiceTypes, mailVars,
            GoesTo, Calls, States
<1>1. CASE ReturnsBareContext
  <2>1. [NoFile EXCEPT !.job = activeJob] \in Files
    BY NoFileFields DEF Files
  <2> QED BY <1>1, <2>1 DEF ReturnsBareContext
<1>2. CASE CannotReceive
  BY <1>2 DEF CannotReceive, prvUnSubscribeFromDataStream
<1>3. CASE StartsTransfer
  <2>1. PICK f \in Failing({"erase"}) :
           /\ flash' = prvPAL_CreateFileForRx(flash, f).flash
           /\ IF prvPAL_CreateFileForRx(flash, f).ok
              THEN eState' = "Active" /\ GoesTo("messages")
              ELSE Calls("Aborted", "selftest") /\ UNCHANGED eState
    BY <1>3 DEF StartsTransfer
  <2>2. flash' \in [Banks -> Bank]
    BY <2>1, ErasedUpdateBank DEF prvPAL_CreateFileForRx
  <2>3. pxC' \in Files /\ streams' \subseteq Jobs
    BY <1>0, <1>3, NewFile DEF StartsTransfer
  <2> QED BY <2>1, <2>2, <2>3
<1> QED BY <1>1, <1>2, <1>3

LEMMA StartSelfTestType == TypeOK /\ StartSelfTest => TypeOK'
BY VerdictsAssumption
DEF TypeOK, StartSelfTest, OTA_CheckForSelfTest, AgentTypes, TaskTypes, MailTypes, ServiceTypes,
    mailVars, deviceVars, serviceVars, GoesTo, Calls, States

-----------------------------------------------------------------------------
(* What comes of a stream message.                                          *)

IngestPasses == GoesTo("messages") /\ UNCHANGED <<flash, pxC, jobs, activeJob, streams>>

Stores ==
    \/ flash' = flash /\ pxC'.remaining = pxC.remaining
    \/ /\ msg.block \in pxC.remaining /\ pxC'.remaining = pxC.remaining \ {msg.block}
       /\ flash'["lower"] = flash["lower"] /\ flash'["upper"].flag = flash["upper"].flag
       /\ flash'["upper"].body = [flash["upper"].body EXCEPT ![msg.block] = msg.job]

IngestContinues ==
    /\ pxC.bitmap /\ Stores
    /\ pxC'.bitmap = TRUE /\ pxC'.job = pxC.job
    /\ GoesTo("messages") /\ UNCHANGED <<jobs, activeJob, streams>>

Closes == pxC' = NoFile /\ activeJob' = NoJob /\ streams' \subseteq streams

IngestFails ==
    /\ Closes /\ GoesTo("messages")
    /\ \E sent \in BOOLEAN : Reported(activeJob, "Failed", sent)
    /\ KeepsLower(flash, flash')
    /\ \/ flash'["upper"] = flash["upper"]
       \/ flash'["upper"].flag = "NoImage"
       \/ flash'["upper"].body = NoBlocks

IngestCompletes ==
    /\ pxC.bitmap /\ Closes /\ (GoesTo("reset") \/ GoesTo("messages"))
    /\ \E sent \in BOOLEAN : Reported(activeJob, "SelfTest", sent)
    /\ flash'["lower"] = flash["lower"]
    /\ Holds(flash'["upper"], pxC.job) /\ flash'["upper"].flag = "New"

LEMMA TransferFailsHow ==
    ASSUME NEW fl \in [Banks -> Bank], NEW failing, fl["lower"] = flash["lower"],
           TransferFails(fl, failing),
           \/ fl["upper"] = flash["upper"]
           \/ fl["upper"].flag = "NoImage"
           \/ fl["upper"].body = NoBlocks
    PROVE  flash' \in [Banks -> Bank] /\ IngestFails
<1>1. /\ flash' \in [Banks -> Bank] /\ KeepsLower(fl, flash')
      /\ flash'["upper"] \in {fl["upper"], ErasedBank}
  BY PlatformImageState DEF TransferFails
<1>2. KeepsLower(flash, flash')
  BY <1>1 DEF KeepsLower, InSelfTest
<1>3. ("publish" \notin failing) \in BOOLEAN
  OBVIOUS
<1>4. \E sent \in BOOLEAN : Reported(activeJob, "Failed", sent)
  BY <1>3 DEF TransferFails
<1>5. Closes
  BY DEF TransferFails, prvOTA_Close, prvUnSubscribeFromDataStream, Closes
<1> QED BY <1>1, <1>2, <1>4, <1>5, ErasedBankType DEF TransferFails, IngestFails

LEMMA TransferCompletesHow ==
    ASSUME NEW fl, NEW failing, fl["lower"] = flash["lower"], pxC.bitmap,
           Holds(fl["upper"], pxC.job), fl["upper"].flag = "New",
           TransferCompletes(fl, failing)
    PROVE  flash' = fl /\ IngestCompletes
<1>1. ("publish" \notin failing) \in BOOLEAN
  OBVIOUS
<1>2. \E sent \in BOOLEAN : Reported(activeJob, "SelfTest", sent)
  BY <1>1 DEF TransferCompletes
<1>3. Closes
  BY DEF TransferCompletes, prvOTA_Close, prvUnSubscribeFromDataStream, Closes
<1> QED BY <1>2, <1>3 DEF TransferCompletes, IngestCompletes

LEMMA ContinuesHow ==
    ASSUME NEW fl, NEW file \in Files, file.bitmap = TRUE, file.job = pxC.job, Continues(fl, file)
    PROVE  /\ flash' = fl /\ pxC' \in Files /\ pxC'.remaining = file.remaining
           /\ pxC'.bitmap = TRUE /\ pxC'.job = pxC.job
           /\ GoesTo("messages") /\ UNCHANGED <<jobs, activeJob, streams>>
<1>1. 0 \in 0 .. OTA_MAX_STREAM_REQUEST_MOMENTUM
  BY BoundsAssumption
<1> QED BY <1>1 DEF Continues, Files

\* prvIngestDataBlock for a file that has its bitmap: f is the set of failing operations.
LEMMA DataBlockCases ==
    ASSUME TypeOK, FileInv, FlashInv, pc = "ingest", msg \in StreamMsgs, pxC.bitmap,
           NEW f, prvIngestDataBlock(f)
    PROVE  /\ flash' \in [Banks -> Bank] /\ pxC' \in Files
           /\ IngestContinues \/ IngestFails \/ IngestCompletes
<1> DEFINE b == msg.block
           write == prvPAL_WriteBlock(flash, b, msg.job, f)
           wf == write.flash
           closed == prvPAL_CloseFile(wf, pxC.job, f)
           cf == closed.flash
           rest == [pxC EXCEPT !.remaining = @ \ {b}]
<1>0. /\ flash \in [Banks -> Bank] /\ pxC \in Files /\ pxC.bitmap = TRUE
      /\ b \in Blocks /\ msg.job \in Images /\ flash["upper"].flag = "NoImage"
  BY StreamMsgFields, JobsAreImages, FileFields DEF TypeOK, AgentTypes, FlashInv
<1>1. \/ TransferFails(flash, f)
      \/ Continues(flash, pxC)
      \/ write.ok /\ b \in pxC.remaining /\ closed.ok /\ TransferCompletes(cf, f)
      \/ write.ok /\ b \in pxC.remaining /\ ~closed.ok /\ TransferFails(cf, f)
      \/ write.ok /\ b \in pxC.remaining /\ Continues(wf, rest)
  BY DEF prvIngestDataBlock, LastBlock
<1>2. /\ wf \in [Banks -> Bank] /\ wf["lower"] = flash["lower"]
      /\ wf["upper"].flag = "NoImage"
      /\ write.ok => wf["upper"].body = [flash["upper"].body EXCEPT ![b] = msg.job]
  BY <1>0, WrittenBlock
<1> HIDE DEF write, wf
<1>3. /\ cf \in [Banks -> Bank] /\ cf["lower"] = flash["lower"]
      /\ closed.ok => Holds(cf["upper"], pxC.job) /\ cf["upper"].flag = "New"
      /\ ~closed.ok => cf["upper"].flag = "NoImage" \/ cf["upper"].body = NoBlocks
  <2>1. /\ cf \in [Banks -> Bank] /\ cf["lower"] = wf["lower"]
        /\ closed.ok => Holds(cf["upper"], pxC.job) /\ cf["upper"].flag = "New"
        /\ ~closed.ok => \/ cf["upper"] \in {wf["upper"], ErasedBank}
                         \/ cf["upper"].body = NoBlocks
    BY <1>2, ClosedFile
  <2> HIDE DEF closed, cf
  <2> QED BY <1>2, <2>1, ErasedBankType
<1> HIDE DEF closed, cf
<1>4. rest \in Files /\ rest.bitmap = TRUE /\ rest.job = pxC.job /\ rest.remaining = pxC.remaining \ {b}
  BY <1>0 DEF Files
<1> HIDE DEF rest
<1>5. CASE TransferFails(flash, f)
  <2>1. flash' \in [Banks -> Bank] /\ IngestFails
    BY <1>0, <1>5, TransferFailsHow
  <2> QED BY <2>1, NoFileFields DEF IngestFails, Closes
<1>6. CASE Continues(flash, pxC)
  BY <1>0, <1>6, ContinuesHow DEF IngestContinues, Stores
<1>7. CASE write.ok /\ closed.ok /\ TransferCompletes(cf, f)
  <2>1. flash' = cf /\ IngestCompletes
    BY <1>0, <1>3, <1>7, TransferCompletesHow
  <2> QED BY <1>3, <2>1, NoFileFields DEF IngestCompletes, Closes
<1>8. CASE write.ok /\ ~closed.ok /\ TransferFails(cf, f)
  <2>1. flash' \in [Banks -> Bank] /\ IngestFails
    BY <1>3, <1>8, TransferFailsHow
  <2> QED BY <2>1, NoFileFields DEF IngestFails, Closes
<1>9. CASE write.ok /\ b \in pxC.remaining /\ Continues(wf, rest)
  <2>1. /\ flash' = wf /\ pxC' \in Files /\ pxC'.remaining = pxC.remaining \ {b}
        /\ pxC'.bitmap = TRUE /\ pxC'.job = pxC.job
        /\ GoesTo("messages") /\ UNCHANGED <<jobs, activeJob, streams>>
    BY <1>4, <1>9, ContinuesHow
  <2>2. Stores
    BY <1>0, <1>2, <1>9, <2>1 DEF Stores
  <2> QED BY <1>2, <2>1, <2>2 DEF IngestContinues
<1> QED BY <1>1, <1>5, <1>6, <1>7, <1>8, <1>9

LEMMA IngestCases ==
    ASSUME TypeOK, FileInv, FlashInv, LoopInv, IngestMessage
    PROVE  /\ flash' \in [Banks -> Bank] /\ pxC' \in Files
           /\ IngestPasses \/ IngestContinues \/ IngestFails \/ IngestCompletes
<1>0. pc = "ingest" /\ msg \in StreamMsgs
  BY DEF IngestMessage, LoopInv
<1>1. CASE pxC # NoFile /\ ~xInSelfTest
  <2>1. PICK f \in Failing({"write", "erase", "verify", "header", "trailer", "publish",
                                 "unsubscribe"}) :
           prvIngestDataBlock(f)
    BY <1>1 DEF IngestMessage
  <2>2. CASE pxC.bitmap
    BY <1>0, <2>1, <2>2, DataBlockCases
  <2>3. CASE ~pxC.bitmap
    <3>1. TransferFails(flash, f)
      BY <2>1, <2>3 DEF prvIngestDataBlock
    <3>2. flash' \in [Banks -> Bank] /\ IngestFails
      BY <3>1, TransferFailsHow DEF TypeOK
    <3> QED BY <3>2, NoFileFields DEF IngestFails, Closes
  <2> QED BY <2>2, <2>3
<1>2. CASE ~(pxC # NoFile /\ ~xInSelfTest)
  BY <1>2 DEF IngestMessage, IngestPasses, TypeOK, AgentTypes
<1> QED BY <1>1, <1>2

LEMMA IngestType ==
    TypeOK /\ FileInv /\ FlashInv /\ LoopInv /\ ControlInv /\ IngestMessage => TypeOK'
<1> SUFFICES ASSUME TypeOK, FileInv, FlashInv, LoopInv, ControlInv, IngestMessage PROVE TypeOK'
  OBVIOUS
<1>1. /\ flash' \in [Banks -> Bank] /\ pxC' \in Files
      /\ IngestPasses \/ IngestContinues \/ IngestFails \/ IngestCompletes
  BY IngestCases
<1>2. /\ activeJob' \in Jobs \cup {NoJob} /\ streams' \subseteq Jobs
      /\ pc' \in {"messages", "reset"} /\ setting' = setting /\ ret' = ret
  BY <1>1
  DEF IngestPasses, IngestContinues, IngestFails, IngestCompletes, Closes, GoesTo, TypeOK,
      AgentTypes, ServiceTypes
<1>3. jobs' \in [Jobs -> JobTypes]
  <2>0. jobs \in [Jobs -> JobTypes] /\ activeJob \in Jobs \cup {NoJob}
    BY DEF TypeOK, AgentTypes, ServiceTypes, JobTypes
  <2>1. CASE UNCHANGED jobs
    BY <2>0, <2>1
  <2>2. CASE \E sent \in BOOLEAN : Reported(activeJob, "Failed", sent)
    <3>1. "Failed" \in Statuses \ {"Queued"}
      BY DEF Statuses, Final
    <3> QED BY <2>0, <2>2, <3>1, ReportedJobs
  <2>3. CASE \E sent \in BOOLEAN : Reported(activeJob, "SelfTest", sent)
    <3>1. "SelfTest" \in Statuses \ {"Queued"}
      BY DEF Statuses, Final
    <3>2. RunningVersion \in Nat
      BY RunningVersionType DEF ControlInv, IngestMessage
    <3> QED BY <2>0, <2>3, <3>1, <3>2, ReportedJobs
  <2> QED BY <1>1, <2>1, <2>2, <2>3 DEF IngestPasses, IngestContinues, IngestFails, IngestCompletes
<1> QED
  BY <1>1, <1>2, <1>3
  DEF TypeOK, IngestMessage, AgentTypes, TaskTypes, MailTypes, ServiceTypes, JobTypes, mailVars

LEMMA ClearedAgentType ==
    ASSUME ClearedAgent
    PROVE  /\ pxC' \in Files /\ queue' \in Seq(Messages) /\ Len(queue') = 0
           /\ eState' = "NotReady" /\ eImageState' = "Unknown" /\ activeJob' = NoJob
           /\ clientToken' = "null" /\ selfTestTimer' = "none" /\ events' = {} /\ bits' = {}
           /\ ret' = "wait" /\ setting' = "Unknown" /\ msg' = NoMsg
BY NoFileFields, EmptyQueue DEF ClearedAgent

\* The task ends, or the device restarts.
LEMMA EndType == TypeOK /\ (prvAgentShutdownCleanup \/ TaskEnds) => TypeOK'
<1> SUFFICES ASSUME TypeOK, prvAgentShutdownCleanup \/ TaskEnds PROVE TypeOK'
  OBVIOUS
<1>1. CASE prvAgentShutdownCleanup
  <2>1. pxC' \in Files /\ streams' \subseteq Jobs
    BY <1>1, NoFileFields
    DEF TypeOK, AgentTypes, ServiceTypes, prvAgentShutdownCleanup, prvOTA_Close,
        prvUnSubscribeFromDataStream
  <2>2. MailTypes'
    BY <1>1, EmptyQueue, BoundsAssumption DEF TypeOK, MailTypes, prvAgentShutdownCleanup
  <2> QED
    BY <1>1, <2>1, <2>2
    DEF TypeOK, AgentTypes, TaskTypes, ServiceTypes, prvAgentShutdownCleanup, GoesTo
<1>2. CASE TaskEnds
  <2>1. ClearedAgent
    BY <1>2 DEF TaskEnds
  <2>2. MailTypes'
    BY <1>2, <2>1, ClearedAgentType, BoundsAssumption DEF TypeOK, MailTypes, TaskEnds
  <2> QED
    BY <1>2, <2>1, <2>2, ClearedAgentType
    DEF TypeOK, AgentTypes, TaskTypes, ServiceTypes, TaskEnds, States, deviceVars, serviceVars
<1> QED BY <1>1, <1>2

LEMMA RestartType == TypeOK /\ (\E f : Restarts(f)) => TypeOK'
<1> SUFFICES ASSUME TypeOK, NEW f, Restarts(f) PROVE TypeOK'
  OBVIOUS
<1> DEFINE next == prvBOOT_ValidateImages(flash, f)
<1>1. flash' = next.flash /\ boot' = next.boot /\ pc' = IF next.boot = "run" THEN "create" ELSE "dead"
  BY DEF Restarts
<1>2. flash' \in [Banks -> Bank] /\ boot' \in {"run", "default", "error"}
  BY <1>1, BootedFlash DEF TypeOK
<1> HIDE DEF next
<1>3. ClearedAgent
  BY DEF Restarts
<1>4. MailTypes'
  BY <1>3, ClearedAgentType, BoundsAssumption DEF MailTypes, Restarts
<1>5. AgentTypes'
  BY <1>3, ClearedAgentType DEF AgentTypes, Restarts, States
<1>6. TaskTypes'
  BY <1>1, <1>3, ClearedAgentType DEF TaskTypes, States
<1> QED BY <1>2, <1>4, <1>5, <1>6 DEF TypeOK, ServiceTypes, Restarts

LEMMA UserType ==
    TypeOK /\ (OTA_AgentInit \/ OTA_AgentShutdown \/ OTA_AbortImage \/ OTA_CheckForUpdate
               \/ prvRequestTimer_Callback) => TypeOK'
<1> SUFFICES ASSUME TypeOK, OTA_AgentInit \/ OTA_AgentShutdown \/ OTA_AbortImage
                            \/ OTA_CheckForUpdate \/ prvRequestTimer_Callback
             PROVE  TypeOK'
  OBVIOUS
<1> USE DEF TypeOK, AgentTypes, TaskTypes, MailTypes, ServiceTypes, agentVars, mailVars,
            deviceVars, serviceVars, taskVars
<1>1. CASE OTA_AgentInit
  BY <1>1 DEF OTA_AgentInit
<1>2. CASE OTA_AgentShutdown \/ OTA_AbortImage
  <2>1. events' \subseteq Bits
    BY <1>2 DEF OTA_AgentShutdown, OTA_AbortImage, Bits
  <2> QED BY <1>2, <2>1 DEF OTA_AgentShutdown, OTA_AbortImage
<1>3. CASE OTA_CheckForUpdate
  BY <1>3 DEF OTA_CheckForUpdate, Asks
<1>4. CASE prvRequestTimer_Callback
  <2>1. pxC' \in Files
    BY <1>4 DEF prvRequestTimer_Callback, Files
  <2> QED BY <1>4, <2>1 DEF prvRequestTimer_Callback, Bits
<1> QED BY <1>1, <1>2, <1>3, <1>4

LEMMA ServiceType == TypeOK /\ (Services \/ prvOTAPublishCallback) => TypeOK'
<1> SUFFICES ASSUME TypeOK, Services \/ prvOTAPublishCallback PROVE TypeOK'
  OBVIOUS
<1>0. jobs \in [Jobs -> JobTypes] /\ NextJob \in Jobs \cup {NoJob}
  BY NextJobIs DEF TypeOK, ServiceTypes, JobTypes
<1> USE DEF TypeOK, AgentTypes, TaskTypes, MailTypes, ServiceTypes, agentVars, mailVars,
            deviceVars, serviceVars, taskVars
<1>1. CASE ServiceAnswers
  <2>1. asked \in {"null", "zero", "nonzero"}
    BY <1>1 DEF ServiceAnswers
  <2>2. arriving' \in Messages
    BY <1>0, <1>1, <2>1, JobDocType DEF ServiceAnswers, Arrives, Messages
  <2> QED BY <1>1, <2>2 DEF ServiceAnswers
<1>2. CASE ServiceNotifies
  <2>1. arriving' \in Messages
    BY <1>0, <1>2, JobDocType DEF ServiceNotifies, Arrives, Messages
  <2> QED BY <1>2, <2>1 DEF ServiceNotifies
<1>3. CASE StreamServes
  <2>1. arriving' \in Messages
    BY <1>3 DEF StreamServes, Arrives, Messages, StreamMsgs
  <2> QED BY <1>3, <2>1 DEF StreamServes
<1>4. CASE Lost
  BY <1>4 DEF Lost
<1>5. ASSUME NEW j \in Jobs, ServiceCancels(j) PROVE TypeOK'
  <2>1. [status |-> "Canceled", updater |-> 0] \in [status : Statuses, updater : Nat]
    BY DEF Statuses, Final
  <2> QED BY <1>5, <2>1 DEF ServiceCancels
<1>6. CASE prvOTAPublishCallback
  <2>1. queue' \in Seq(Messages) /\ Len(queue') <= OTA_NUM_MSG_Q_ENTRIES
    <3>1. CASE queue' = Append(queue, arriving) /\ Len(queue) < OTA_NUM_MSG_Q_ENTRIES
      <4>1. arriving \in Messages
        BY <1>6 DEF prvOTAPublishCallback
      <4>2. Len(queue) \in Nat /\ Len(queue') = Len(queue) + 1
        BY <3>1, QueueType
      <4> QED BY <3>1, <4>1, <4>2, BoundsAssumption
    <3>2. CASE queue' = queue
      BY <3>2
    <3> QED BY <1>6, <3>1, <3>2 DEF prvOTAPublishCallback
  <2>2. events' \subseteq Bits /\ pc' \in {pc, "halted"} /\ arriving' = NoMsg
    BY <1>6 DEF prvOTAPublishCallback, Bits
  <2> QED BY <1>6, <2>1, <2>2 DEF prvOTAPublishCallback
<1> QED BY <1>1, <1>2, <1>3, <1>4, <1>5, <1>6 DEF Services

\* The steps that restart the device.
LEMMA RestartSteps ==
    ASSUME prvResetDevice \/ ActivateLater \/ prvSelfTestTimer_Callback \/ WatchdogExpires \/ PowerCut
    PROVE  \E f : Restarts(f)
BY DEF prvResetDevice, ActivateLater, prvSelfTestTimer_Callback, WatchdogExpires, PowerCut, Reset

\* The steps, as the lemmas group them.
LEMMA StepCases ==
    ASSUME [Next]_vars
    PROVE  \/ TaskStarts \/ WaitBits \/ HandleUserAbort \/ EndOfLoop \/ HandleRequestTimeout
           \/ TakeMessage \/ SetImageState \/ ReportImageState \/ prvParseJobDoc
           \/ prvProcessOTAJobMsg \/ StartSelfTest \/ IngestMessage
           \/ prvAgentShutdownCleanup \/ TaskEnds
           \/ (\E f : Restarts(f))
           \/ OTA_AgentInit \/ OTA_AgentShutdown \/ OTA_AbortImage \/ OTA_CheckForUpdate
           \/ prvRequestTimer_Callback
           \/ ServiceAnswers \/ ServiceNotifies \/ StreamServes \/ Lost
           \/ (\E j \in Jobs : ServiceCancels(j)) \/ prvOTAPublishCallback
           \/ UNCHANGED vars
BY RestartSteps DEF Next, Task, Users, Services

LEMMA StepKeepsType ==
    TypeOK /\ ControlInv /\ LoopInv /\ FileInv /\ FlashInv /\ [Next]_vars => TypeOK'
<1>1. TypeOK /\ UNCHANGED vars => TypeOK'
  BY DEF TypeOK, AgentTypes, TaskTypes, MailTypes, ServiceTypes, vars, agentVars, mailVars,
         deviceVars, serviceVars, taskVars
<1> QED
  BY <1>1, StepCases, TaskStartsType, QuietTaskType, RequestType, TakeMessageType,
     SetImageStateType, ReportType, ParseType, ProcessType, StartSelfTestType, IngestType,
     EndType, RestartType, UserType, ServiceType
  DEF Services

-----------------------------------------------------------------------------
(* Control: where the task is, its file, and the events of its queue.       *)

CoreInv == TypeOK /\ ControlInv /\ LoopInv /\ FileInv /\ FlashInv

LEMMA TakeMessageGoes ==
    ASSUME TypeOK, TakeMessage
    PROVE  /\ msg' \in Messages
           /\ \/ pc' = "ingest" /\ msg' \in StreamMsgs
              \/ pc' = "set" /\ setting' = "Aborted" /\ ret' = "parse" /\ msg' \in JobDocs
              \/ pc' = "parse" /\ pxC = NoFile /\ msg' \in JobDocs
<1>1. msg' \in Messages
  BY HeadTailProperties DEF TypeOK, MailTypes, TakeMessage
<1>2. (msg'.type = "stream" /\ msg' \in StreamMsgs) \/ (msg'.type = "job" /\ msg' \in JobDocs)
  BY <1>1, MessageKinds DEF Messages
<1> QED BY <1>1, <1>2 DEF TakeMessage, GoesTo, Calls

LEMMA StepKeepsControl == CoreInv /\ [Next]_vars => ControlInv'
<1> SUFFICES ASSUME CoreInv, [Next]_vars PROVE ControlInv'
  OBVIOUS
<1>0. ControlInv /\ LoopInv /\ FileInv
  BY DEF CoreInv
<1> USE <1>0 DEF ControlInv
<1>1. CASE TaskStarts \/ WaitBits \/ HandleUserAbort \/ EndOfLoop
  BY <1>1 DEF TaskStarts, WaitBits, HandleUserAbort, EndOfLoop, OTA_CheckForSelfTest,
              GoesTo, Calls, agentVars, mailVars, deviceVars, serviceVars, taskVars
<1>2. CASE HandleRequestTimeout \/ TakeMessage
  <2>1. CASE HandleRequestTimeout
    BY <2>1 DEF HandleRequestTimeout, prvPublishGetStreamMessage, GoesTo, Calls,
                agentVars, mailVars
  <2>2. CASE TakeMessage
    <3>1. pc' \in {"ingest", "set", "parse"} /\ pc = "messages"
      BY <2>2, TakeMessageGoes DEF CoreInv, TakeMessage
    <3> QED BY <2>2, <3>1 DEF TakeMessage, agentVars, deviceVars
  <2> QED BY <1>2, <2>1, <2>2
<1>3. CASE SetImageState \/ ReportImageState
  BY <1>3 DEF SetImageState, ReportImageState, LoopInv, agentVars, mailVars, deviceVars,
              serviceVars, TypeOK, CoreInv, TaskTypes
<1>4. CASE prvParseJobDoc \/ prvProcessOTAJobMsg \/ StartSelfTest
  BY <1>4 DEF prvParseJobDoc, SelfTestVerdict, prvProcessOTAJobMsg, ReturnsBareContext,
              CannotReceive, StartsTransfer, StartSelfTest, GoesTo, Calls,
              agentVars, mailVars, deviceVars, serviceVars, taskVars
<1>5. CASE IngestMessage
  <2>1. pc' \in {"messages", "reset"}
    <3>1. IngestPasses \/ IngestContinues \/ IngestFails \/ IngestCompletes
      BY <1>5, IngestCases DEF CoreInv
    <3> QED
      BY <3>1 DEF IngestPasses, IngestContinues, IngestFails, IngestCompletes, GoesTo
  <2> QED BY <1>5, <2>1 DEF IngestMessage
<1>6. CASE prvAgentShutdownCleanup \/ TaskEnds
  BY <1>6 DEF prvAgentShutdownCleanup, TaskEnds, ClearedAgent, GoesTo, deviceVars, serviceVars
<1>7. CASE \E f : Restarts(f)
  BY <1>7 DEF Restarts, ClearedAgent
<1>8. CASE OTA_AgentInit \/ OTA_AgentShutdown \/ OTA_AbortImage \/ OTA_CheckForUpdate
  BY <1>8 DEF OTA_AgentInit, OTA_AgentShutdown, OTA_AbortImage, OTA_CheckForUpdate, AgentRuns,
              agentVars, mailVars, deviceVars, serviceVars, taskVars
<1>9. CASE prvRequestTimer_Callback
  <2>1. pxC # NoFile
    BY <1>9, NoFileFields DEF prvRequestTimer_Callback
  <2> QED
    BY <1>9, <2>1 DEF prvRequestTimer_Callback, agentVars, deviceVars, serviceVars, taskVars
<1>10. CASE ServiceAnswers \/ ServiceNotifies \/ StreamServes \/ Lost
            \/ (\E j \in Jobs : ServiceCancels(j))
  BY <1>10 DEF ServiceAnswers, ServiceNotifies, StreamServes, Lost, ServiceCancels, Arrives,
               AgentRuns, agentVars, mailVars, deviceVars, serviceVars, taskVars
<1>11. CASE prvOTAPublishCallback
  BY <1>11 DEF prvOTAPublishCallback, AgentRuns, agentVars, deviceVars, serviceVars
<1>12. CASE UNCHANGED vars
  BY <1>12 DEF vars, agentVars, mailVars, deviceVars, serviceVars, taskVars
<1> QED
  BY StepCases, <1>1, <1>2, <1>3, <1>4, <1>5, <1>6, <1>7, <1>8, <1>9, <1>10, <1>11, <1>12

LEMMA StepKeepsLoop == CoreInv /\ [Next]_vars => LoopInv'
<1> SUFFICES ASSUME CoreInv, [Next]_vars PROVE LoopInv'
  OBVIOUS
<1>0. TypeOK /\ ControlInv /\ LoopInv
  BY DEF CoreInv
<1> USE <1>0 DEF LoopInv
<1>1. CASE TaskStarts \/ WaitBits \/ HandleUserAbort \/ EndOfLoop
  BY <1>1 DEF TaskStarts, WaitBits, HandleUserAbort, EndOfLoop,
              GoesTo, Calls, agentVars, mailVars, deviceVars, serviceVars, taskVars
<1>2. CASE HandleRequestTimeout
  BY <1>2 DEF HandleRequestTimeout, prvPublishGetStreamMessage, GoesTo, Calls,
              agentVars, mailVars
<1>3. CASE TakeMessage
  <2>1. msg' \in Messages
    BY <1>3, HeadTailProperties DEF TypeOK, MailTypes, TakeMessage
  <2> QED BY <1>3, <2>1, MessageKinds DEF TakeMessage, GoesTo, Calls, agentVars, Messages
<1>4. CASE SetImageState
  BY <1>4 DEF SetImageState, mailVars, serviceVars
<1>5. CASE ReportImageState
  BY <1>5 DEF ReportImageState, mailVars, TypeOK, TaskTypes
<1>6. CASE prvParseJobDoc
  BY <1>6 DEF prvParseJobDoc, SelfTestVerdict, Taken, Ignored, GoesTo, Calls
<1>7. CASE prvProcessOTAJobMsg \/ StartSelfTest
  BY <1>7, VerdictsAssumption DEF prvProcessOTAJobMsg, ReturnsBareContext,
              CannotReceive, StartsTransfer, StartSelfTest, GoesTo, Calls,
              agentVars, mailVars, deviceVars, serviceVars
<1>8. CASE IngestMessage
  <2>1. pc' \in {"messages", "reset"}
    <3>1. IngestPasses \/ IngestContinues \/ IngestFails \/ IngestCompletes
      BY <1>8, IngestCases DEF CoreInv
    <3> QED
      BY <3>1 DEF IngestPasses, IngestContinues, IngestFails, IngestCompletes, GoesTo
  <2> QED BY <1>8, <2>1 DEF IngestMessage
<1>9. CASE prvAgentShutdownCleanup \/ TaskEnds
  BY <1>9 DEF prvAgentShutdownCleanup, TaskEnds, GoesTo
<1>10. CASE \E f : Restarts(f)
  BY <1>10 DEF Restarts
<1>11. CASE OTA_AgentInit \/ OTA_AgentShutdown \/ OTA_AbortImage \/ OTA_CheckForUpdate
            \/ prvRequestTimer_Callback
  BY <1>11 DEF OTA_AgentInit, OTA_AgentShutdown, OTA_AbortImage, OTA_CheckForUpdate,
               prvRequestTimer_Callback,
               agentVars, mailVars, deviceVars, serviceVars, taskVars
<1>12. CASE ServiceAnswers \/ ServiceNotifies \/ StreamServes \/ Lost
            \/ (\E j \in Jobs : ServiceCancels(j))
  BY <1>12 DEF ServiceAnswers, ServiceNotifies, StreamServes, Lost, ServiceCancels,
               agentVars, deviceVars, serviceVars, taskVars
<1>13. CASE prvOTAPublishCallback
  BY <1>13 DEF prvOTAPublishCallback, agentVars, deviceVars, serviceVars
<1>14. CASE UNCHANGED vars
  BY <1>14 DEF vars, agentVars, mailVars, deviceVars, serviceVars, taskVars
<1> QED
  BY StepCases, <1>1, <1>2, <1>3, <1>4, <1>5, <1>6, <1>7, <1>8, <1>9, <1>10, <1>11, <1>12, <1>13, <1>14

LEMMA RequestKeepsFile ==
    ASSUME TypeOK, FileInv, pc = "timeout", HandleRequestTimeout
    PROVE  \/ pxC' = pxC
           \/ /\ pc' = "messages" /\ pxC'.job = pxC.job /\ pxC'.bitmap = pxC.bitmap
              /\ pxC'.remaining = pxC.remaining
<1>1. pxC \in Files
  BY DEF TypeOK, AgentTypes
<1>2. CASE pxC.momentum < OTA_MAX_STREAM_REQUEST_MOMENTUM
  <2>1. PICK f \in Failing({"publish"}) :
           pxC' = [pxC EXCEPT !.momentum = @ + 1, !.timer = IF f = {} THEN "running" ELSE @]
    BY <1>2 DEF HandleRequestTimeout, prvPublishGetStreamMessage
  <2> QED BY <1>1, <1>2, <2>1
          DEF Files, HandleRequestTimeout, prvPublishGetStreamMessage, GoesTo
<1>3. CASE ~(pxC.momentum < OTA_MAX_STREAM_REQUEST_MOMENTUM)
  BY <1>3 DEF HandleRequestTimeout, prvPublishGetStreamMessage
<1> QED BY <1>2, <1>3

LEMMA TimerKeepsFile ==
    ASSUME TypeOK, prvRequestTimer_Callback
    PROVE  /\ pxC'.job = pxC.job /\ pxC'.bitmap = pxC.bitmap /\ pxC'.remaining = pxC.remaining
           /\ pxC # NoFile
BY NoFileFields, FileFields DEF TypeOK, AgentTypes, Files, prvRequestTimer_Callback

LEMMA StepKeepsFile == CoreInv /\ [Next]_vars => FileInv'
<1> SUFFICES ASSUME CoreInv, [Next]_vars PROVE FileInv'
  OBVIOUS
<1>0. TypeOK /\ ControlInv /\ LoopInv /\ FileInv
  BY DEF CoreInv
<1> USE <1>0, NoFileFields DEF FileInv
<1>1. CASE TaskStarts \/ WaitBits \/ EndOfLoop
  BY <1>1 DEF TaskStarts, WaitBits, EndOfLoop,
              GoesTo, agentVars, mailVars, deviceVars, serviceVars, taskVars
<1>2. CASE HandleUserAbort
  BY <1>2 DEF HandleUserAbort, Calls, agentVars, mailVars, deviceVars, serviceVars
<1>3. CASE HandleRequestTimeout
  <2>1. \/ pxC' = pxC
        \/ /\ pc' = "messages" /\ pxC'.job = pxC.job /\ pxC'.bitmap = pxC.bitmap
           /\ pxC'.remaining = pxC.remaining
    BY <1>3, RequestKeepsFile DEF HandleRequestTimeout
  <2>2. /\ activeJob' = activeJob
        /\ pc' = "messages" \/ (pc' = "set" /\ setting' = "Aborted")
    BY <1>3 DEF HandleRequestTimeout, prvPublishGetStreamMessage, GoesTo, Calls, agentVars
  <2> QED BY <2>1, <2>2
<1>4. CASE TakeMessage
  BY <1>4, TakeMessageGoes DEF TakeMessage, agentVars
<1>5. CASE SetImageState
  BY <1>5 DEF SetImageState, mailVars, serviceVars
<1>6. CASE ReportImageState
  <2>1. pxC' = NoFile
    BY <1>6 DEF ReportImageState, prvOTA_Close
  <2> QED BY <2>1
<1>7. CASE prvParseJobDoc
  BY <1>7 DEF prvParseJobDoc
<1>8. CASE prvProcessOTAJobMsg
  <2>1. activeJob \in Jobs /\ pxC = NoFile /\ activeJob' = activeJob
    BY <1>8 DEF LoopInv, prvProcessOTAJobMsg, TypeOK, AgentTypes
  <2>2. CASE ReturnsBareContext
    <3>1. pxC'.bitmap = FALSE /\ pxC'.remaining = {}
      BY <2>2 DEF ReturnsBareContext, NoFile
    <3> QED BY <2>2, <3>1 DEF ReturnsBareContext, GoesTo
  <2>3. CASE CannotReceive
    BY <2>1, <2>3 DEF CannotReceive, GoesTo
  <2>4. CASE StartsTransfer
    <3>1. /\ pxC'.job = activeJob /\ pxC'.bitmap = TRUE
          /\ pxC'.remaining = BlocksOf[activeJob]
      BY <2>1, <2>4, NewFile DEF StartsTransfer
    <3>2. pc' = "messages" \/ (pc' = "set" /\ setting' = "Aborted")
      BY <2>4 DEF StartsTransfer, GoesTo, Calls
    <3> QED BY <2>1, <3>1, <3>2
  <2> QED BY <1>8, <2>2, <2>3, <2>4 DEF prvProcessOTAJobMsg
<1>9. CASE StartSelfTest
  BY <1>9 DEF StartSelfTest, GoesTo, Calls, deviceVars
<1>10. CASE IngestMessage
  <2>1. IngestPasses \/ IngestContinues \/ IngestFails \/ IngestCompletes
    BY <1>10, IngestCases DEF CoreInv
  <2>2. pc' \in {"messages", "reset"}
    BY <2>1 DEF IngestPasses, IngestContinues, IngestFails, IngestCompletes, GoesTo
  <2>3. CASE IngestPasses
    BY <2>2, <2>3 DEF IngestPasses
  <2>4. CASE IngestContinues
    BY <2>2, <2>4 DEF IngestContinues, Stores
  <2>5. CASE IngestFails \/ IngestCompletes
    BY <2>2, <2>5 DEF IngestFails, IngestCompletes, Closes
  <2> QED BY <2>1, <2>3, <2>4, <2>5
<1>11. CASE prvAgentShutdownCleanup \/ TaskEnds
  BY <1>11 DEF prvAgentShutdownCleanup, prvOTA_Close, TaskEnds, ClearedAgent
<1>12. CASE \E f : Restarts(f)
  BY <1>12 DEF Restarts, ClearedAgent
<1>13. CASE OTA_AgentInit \/ OTA_AgentShutdown \/ OTA_AbortImage \/ OTA_CheckForUpdate
  BY <1>13 DEF OTA_AgentInit, OTA_AgentShutdown, OTA_AbortImage, OTA_CheckForUpdate,
               agentVars, mailVars, deviceVars, serviceVars, taskVars
<1>14. CASE prvRequestTimer_Callback
  <2>1. UNCHANGED <<pc, setting, activeJob>>
    BY <1>14 DEF prvRequestTimer_Callback, taskVars, agentVars
  <2> QED BY <1>14, <2>1, TimerKeepsFile
<1>15. CASE ServiceAnswers \/ ServiceNotifies \/ StreamServes \/ Lost
            \/ (\E j \in Jobs : ServiceCancels(j))
  BY <1>15 DEF ServiceAnswers, ServiceNotifies, StreamServes, Lost, ServiceCancels,
               agentVars, deviceVars, serviceVars, taskVars
<1>16. CASE prvOTAPublishCallback
  BY <1>16 DEF prvOTAPublishCallback, agentVars, deviceVars, serviceVars
<1>17. CASE UNCHANGED vars
  BY <1>17 DEF vars, agentVars, mailVars, deviceVars, serviceVars, taskVars
<1> QED
  BY StepCases, <1>1, <1>2, <1>3, <1>4, <1>5, <1>6, <1>7, <1>8, <1>9, <1>10, <1>11, <1>12, <1>13,
     <1>14, <1>15, <1>16, <1>17

LEMMA StepKeepsEvents == CoreInv /\ EventInv /\ [Next]_vars => EventInv'
<1> SUFFICES ASSUME CoreInv, EventInv, [Next]_vars PROVE EventInv'
  OBVIOUS
<1>0. TypeOK /\ ControlInv /\ LoopInv
  BY DEF CoreInv
<1> USE <1>0 DEF EventInv
<1>1. CASE TaskStarts
  BY <1>1 DEF TaskStarts, ControlInv, mailVars
<1>2. CASE WaitBits
  BY <1>2 DEF WaitBits, GoesTo
<1>3. CASE HandleUserAbort \/ EndOfLoop
  BY <1>3 DEF HandleUserAbort, EndOfLoop, Calls, mailVars
<1>4. CASE HandleRequestTimeout
  BY <1>4 DEF HandleRequestTimeout, prvPublishGetStreamMessage, GoesTo, Calls, mailVars
<1>5. CASE TakeMessage
  <2>1. pc' # "wait" /\ UNCHANGED <<bits, events>> /\ "msgReady" \in bits
    BY <1>5, TakeMessageGoes DEF TakeMessage
  <2> QED BY <2>1
<1>6. CASE SetImageState
  BY <1>6 DEF SetImageState, mailVars
<1>7. CASE ReportImageState
  BY <1>7 DEF ReportImageState, LoopInv, mailVars
<1>8. CASE prvParseJobDoc \/ prvProcessOTAJobMsg \/ StartSelfTest
  BY <1>8 DEF prvParseJobDoc, SelfTestVerdict, prvProcessOTAJobMsg, ReturnsBareContext,
              CannotReceive, StartsTransfer, StartSelfTest, GoesTo, Calls, mailVars
<1>9. CASE IngestMessage
  <2>1. pc' \in {"messages", "reset"}
    <3>1. IngestPasses \/ IngestContinues \/ IngestFails \/ IngestCompletes
      BY <1>9, IngestCases DEF CoreInv
    <3> QED
      BY <3>1 DEF IngestPasses, IngestContinues, IngestFails, IngestCompletes, GoesTo
  <2> QED BY <1>9, <2>1 DEF IngestMessage, mailVars
<1>10. CASE prvAgentShutdownCleanup \/ TaskEnds
  BY <1>10 DEF prvAgentShutdownCleanup, TaskEnds, ClearedAgent
<1>11. CASE \E f : Restarts(f)
  BY <1>11 DEF Restarts, ClearedAgent
<1>12. CASE OTA_AgentInit \/ OTA_AgentShutdown \/ OTA_AbortImage \/ OTA_CheckForUpdate
            \/ prvRequestTimer_Callback
  BY <1>12 DEF OTA_AgentInit, OTA_AgentShutdown, OTA_AbortImage, OTA_CheckForUpdate,
               prvRequestTimer_Callback, mailVars, taskVars
<1>13. CASE ServiceAnswers \/ ServiceNotifies \/ StreamServes \/ Lost
            \/ (\E j \in Jobs : ServiceCancels(j))
  BY <1>13 DEF ServiceAnswers, ServiceNotifies, StreamServes, Lost, ServiceCancels,
               mailVars, taskVars
<1>14. CASE prvOTAPublishCallback
  BY <1>14 DEF prvOTAPublishCallback, AgentRuns, ControlInv
<1>15. CASE UNCHANGED vars
  BY <1>15 DEF vars, mailVars, taskVars
<1> QED
  BY StepCases, <1>1, <1>2, <1>3, <1>4, <1>5, <1>6, <1>7, <1>8, <1>9, <1>10, <1>11, <1>12, <1>13,
     <1>14, <1>15

-----------------------------------------------------------------------------
(* The flash and the file that is received into it.                         *)

\* Every other step leaves the flash, and the file as it is unless it closes it.
FlashChanges ==
    SetImageState \/ prvProcessOTAJobMsg \/ IngestMessage \/ \E f : Restarts(f)

LEMMA QuietSteps ==
    ASSUME CoreInv, [Next]_vars, ~FlashChanges
    PROVE  /\ flash' = flash /\ boot' = boot
           /\ pxC'.bitmap => /\ pxC.bitmap /\ pxC'.job = pxC.job
                             /\ pxC'.remaining = pxC.remaining
                             /\ pc \in {"set", "report"} => pc' \in {"set", "report"}
<1> DEFINE Quiet ==
       /\ flash' = flash /\ boot' = boot
       /\ pxC'.bitmap => /\ pxC.bitmap /\ pxC'.job = pxC.job
                         /\ pxC'.remaining = pxC.remaining
                         /\ pc \in {"set", "report"} => pc' \in {"set", "report"}
<1> SUFFICES Quiet
  OBVIOUS
<1>0. TypeOK /\ ControlInv /\ FileInv
  BY DEF CoreInv
<1>1. CASE TaskStarts \/ WaitBits \/ HandleUserAbort \/ EndOfLoop
  BY <1>1 DEF TaskStarts, WaitBits, HandleUserAbort, EndOfLoop, deviceVars
<1>2. CASE HandleRequestTimeout
  BY <1>0, <1>2, RequestKeepsFile DEF HandleRequestTimeout
<1>3. CASE TakeMessage \/ prvParseJobDoc \/ StartSelfTest
  BY <1>3 DEF TakeMessage, prvParseJobDoc, StartSelfTest, deviceVars
<1>4. CASE ReportImageState
  <2>1. pxC' = NoFile
    BY <1>0, <1>4 DEF FileInv, ReportImageState, prvOTA_Close
  <2> QED BY <1>4, <2>1, NoFileFields DEF ReportImageState
<1>5. CASE prvAgentShutdownCleanup \/ TaskEnds
  BY <1>5, NoFileFields DEF prvAgentShutdownCleanup, prvOTA_Close, TaskEnds, ClearedAgent, deviceVars
<1>6. CASE OTA_AgentInit \/ OTA_AgentShutdown \/ OTA_AbortImage \/ OTA_CheckForUpdate
  BY <1>6 DEF OTA_AgentInit, OTA_AgentShutdown, OTA_AbortImage, OTA_CheckForUpdate,
              deviceVars, taskVars
<1>7. CASE prvRequestTimer_Callback
  BY <1>0, <1>7, TimerKeepsFile DEF prvRequestTimer_Callback, deviceVars, taskVars
<1>8. CASE ServiceAnswers \/ ServiceNotifies \/ StreamServes \/ Lost
           \/ (\E j \in Jobs : ServiceCancels(j))
  BY <1>8 DEF ServiceAnswers, ServiceNotifies, StreamServes, Lost, ServiceCancels,
              deviceVars, taskVars
<1>9. CASE prvOTAPublishCallback
  <2>1. pc \notin {"set", "report"} \/ pc' = pc
    BY <1>9 DEF prvOTAPublishCallback, AgentRuns
  <2> QED BY <1>9, <2>1 DEF prvOTAPublishCallback, deviceVars
<1>10. CASE UNCHANGED vars
  BY <1>10 DEF vars, deviceVars, taskVars
<1> QED
  BY StepCases, <1>1, <1>2, <1>3, <1>4, <1>5, <1>6, <1>7, <1>8, <1>9, <1>10 DEF FlashChanges

\* What a step that sets the image state or takes a message does to the flash.
LEMMA SetImageStateFlash ==
    ASSUME TypeOK, SetImageState
    PROVE  /\ KeepsLower(flash, flash') /\ flash'["upper"] \in {flash["upper"], ErasedBank}
           /\ boot' = boot /\ pxC' = pxC /\ pc' = "report"
           /\ setting = "Testing" => flash' = flash /\ setting' = "Testing"
           /\ setting' = "Accepted" => flash'["lower"].flag = "Valid"
           /\ setting' \in {setting, "Rejected"} /\ eImageState' = setting'
<1>1. PICK f \in Failing({"write", "erase"}) :
         LET pal == prvPAL_SetPlatformImageState(flash, setting, f)
             state == IF pal.ok \/ setting = "Aborted" THEN setting ELSE "Rejected"
         IN  flash' = pal.flash /\ eImageState' = state /\ setting' = state
  BY DEF SetImageState
<1> DEFINE pal == prvPAL_SetPlatformImageState(flash, setting, f)
<1>2. /\ KeepsLower(flash, pal.flash) /\ pal.flash["upper"] \in {flash["upper"], ErasedBank}
      /\ setting = "Testing" => pal.ok /\ pal.flash = flash
      /\ setting = "Accepted" /\ pal.ok => pal.flash["lower"].flag = "Valid"
  BY PlatformImageState DEF TypeOK
<1>3. /\ flash' = pal.flash /\ eImageState' = setting'
      /\ setting' = IF pal.ok \/ setting = "Aborted" THEN setting ELSE "Rejected"
  BY <1>1
<1> HIDE DEF pal
<1> QED BY <1>2, <1>3 DEF SetImageState

LEMMA ProcessFlash ==
    ASSUME CoreInv, prvProcessOTAJobMsg
    PROVE  /\ flash' \in [Banks -> Bank] /\ boot' = boot /\ flash'["lower"] = flash["lower"]
           /\ flash'["upper"] \in {flash["upper"], ErasedBank}
           /\ pxC'.bitmap =>
                 \/ pc' = "set"
                 \/ /\ flash'["upper"] = ErasedBank
                    /\ pxC'.job \in Jobs /\ pxC'.remaining = BlocksOf[pxC'.job]
<1>0. TypeOK /\ activeJob \in Jobs /\ pxC = NoFile /\ flash \in [Banks -> Bank]
  BY DEF CoreInv, TypeOK, AgentTypes, LoopInv, FileInv, prvProcessOTAJobMsg
<1>1. CASE ReturnsBareContext
  <2>1. pxC'.bitmap = FALSE
    BY <1>1 DEF ReturnsBareContext, NoFile
  <2> QED BY <1>0, <1>1, <2>1 DEF ReturnsBareContext, prvProcessOTAJobMsg
<1>2. CASE CannotReceive
  BY <1>0, <1>2, NoFileFields DEF CannotReceive, prvProcessOTAJobMsg
<1>3. CASE StartsTransfer
  <2>1. PICK f \in Failing({"erase"}) :
           /\ flash' = prvPAL_CreateFileForRx(flash, f).flash
           /\ IF prvPAL_CreateFileForRx(flash, f).ok
              THEN eState' = "Active" /\ GoesTo("messages")
              ELSE Calls("Aborted", "selftest") /\ UNCHANGED eState
    BY <1>3 DEF StartsTransfer
  <2>2. /\ flash' = AWS_FlashEraseUpdateBank(flash, f)
        /\ "erase" \in f => pc' = "set"
    BY <2>1 DEF prvPAL_CreateFileForRx, Calls
  <2>3. /\ flash' \in [Banks -> Bank] /\ flash'["lower"] = flash["lower"]
        /\ flash'["upper"] \in {flash["upper"], ErasedBank}
        /\ "erase" \notin f => flash'["upper"] = ErasedBank
    BY <1>0, <2>2, ErasedUpdateBank
  <2>4. pxC'.job = activeJob /\ pxC'.remaining = BlocksOf[activeJob]
    BY <1>0, <1>3, NewFile DEF StartsTransfer
  <2> QED BY <1>0, <2>2, <2>3, <2>4 DEF prvProcessOTAJobMsg
<1> QED BY <1>1, <1>2, <1>3 DEF prvProcessOTAJobMsg

LEMMA RestartFlash ==
    ASSUME TypeOK, NEW f, Restarts(f)
    PROVE  /\ flash' \in [Banks -> Bank] /\ pxC' = NoFile
           /\ boot' = "run" => Authentic(flash'["lower"]) /\ flash'["lower"].flag # "NoImage"
           /\ \A k \in Banks : flash'[k].flag # "NoImage" =>
                 \E o \in Banks : flash[o].flag # "NoImage" /\ flash'[k].body = flash[o].body
<1> DEFINE next == prvBOOT_ValidateImages(flash, f)
<1>1. flash' = next.flash /\ boot' = next.boot /\ pxC' = NoFile
  BY DEF Restarts, ClearedAgent
<1>2. /\ next.flash \in [Banks -> Bank]
      /\ next.boot = "run" => Authentic(next.flash["lower"]) /\ Header(next.flash, "lower")
      /\ \A k \in Banks : Header(next.flash, k) =>
            \E o \in Banks : Header(flash, o) /\ next.flash[k].body = flash[o].body
  BY BootedFlash DEF TypeOK
<1> HIDE DEF next
<1> QED BY <1>1, <1>2 DEF Header

LEMMA KeptLowerIsAuthentic ==
    ASSUME NEW f, NEW g, KeepsLower(f, g), Authentic(f["lower"]), f["lower"].flag # "NoImage"
    PROVE  Authentic(g["lower"]) /\ g["lower"].flag # "NoImage"
BY SameBody DEF KeepsLower

LEMMA StepKeepsFlash == CoreInv /\ [Next]_vars => FlashInv'
<1> SUFFICES ASSUME CoreInv, [Next]_vars PROVE FlashInv'
  OBVIOUS
<1>0. TypeOK /\ ControlInv /\ LoopInv /\ FileInv /\ FlashInv
  BY DEF CoreInv
<1>1. CASE ~FlashChanges
  BY <1>0, <1>1, QuietSteps DEF FlashInv
<1>2. CASE SetImageState
  <2>1. boot' = "run" => Authentic(flash'["lower"]) /\ flash'["lower"].flag # "NoImage"
    BY <1>0, <1>2, SetImageStateFlash, KeptLowerIsAuthentic DEF FlashInv
  <2> QED BY <1>0, <1>2, <2>1, SetImageStateFlash DEF FlashInv
<1>3. CASE prvProcessOTAJobMsg
  BY <1>0, <1>3, ProcessFlash, ErasedBankType DEF FlashInv
<1>4. CASE IngestMessage
  <2>1. boot' = boot
    BY <1>4 DEF IngestMessage
  <2>2. KeepsLower(flash, flash')
    BY <1>0, <1>4, IngestCases
    DEF IngestPasses, IngestContinues, Stores, IngestFails, IngestCompletes, KeepsLower
  <2>3. boot' = "run" => Authentic(flash'["lower"]) /\ flash'["lower"].flag # "NoImage"
    BY <1>0, <2>1, <2>2, KeptLowerIsAuthentic DEF FlashInv
  <2>4. pxC'.bitmap => pxC.bitmap /\ flash'["upper"].flag = flash["upper"].flag
    BY <1>0, <1>4, IngestCases, NoFileFields
    DEF IngestPasses, IngestContinues, Stores, IngestFails, IngestCompletes, Closes
  <2> QED BY <1>0, <1>4, <2>3, <2>4 DEF FlashInv, IngestMessage
<1>5. CASE \E f : Restarts(f)
  BY <1>0, <1>5, RestartFlash, NoFileFields DEF FlashInv
<1> QED BY <1>1, <1>2, <1>3, <1>4, <1>5 DEF FlashChanges

LEMMA StepKeepsBitmap == CoreInv /\ BitmapMatchesFlash /\ [Next]_vars => BitmapMatchesFlash'
<1> SUFFICES ASSUME CoreInv, BitmapMatchesFlash, [Next]_vars PROVE BitmapMatchesFlash'
  OBVIOUS
<1>0. TypeOK /\ ControlInv /\ LoopInv /\ FileInv /\ FlashInv
  BY DEF CoreInv
<1>1. CASE ~FlashChanges
  BY <1>1, QuietSteps DEF BitmapMatchesFlash
<1>2. CASE SetImageState
  BY <1>0, <1>2, SetImageStateFlash DEF BitmapMatchesFlash
<1>3. CASE prvProcessOTAJobMsg
  <2>1. \A j \in Jobs : \A b \in BlocksOf[j] : ErasedBank.body[b] = NoData
    BY JobsAreImages, DataAssumption DEF ErasedBank, NoBlocks
  <2> QED BY <1>3, <2>1, ProcessFlash DEF BitmapMatchesFlash
<1>4. CASE IngestMessage
  <2>1. CASE IngestPasses
    BY <1>4, <2>1 DEF IngestPasses, BitmapMatchesFlash, IngestMessage
  <2>2. CASE IngestContinues
    <3>1. /\ pxC.bitmap /\ pxC.job \in Jobs /\ pxC'.job = pxC.job /\ pc = "ingest"
          /\ \A b \in BlocksOf[pxC.job] : b \in pxC.remaining <=> flash["upper"].body[b] = NoData
      BY <1>0, <1>4, <2>2 DEF IngestContinues, FileInv, IngestMessage, BitmapMatchesFlash
    <3>2. CASE flash' = flash /\ pxC'.remaining = pxC.remaining
      BY <3>1, <3>2 DEF BitmapMatchesFlash
    <3>3. CASE /\ pxC'.remaining = pxC.remaining \ {msg.block}
               /\ flash'["upper"].body = [flash["upper"].body EXCEPT ![msg.block] = msg.job]
      <4>1. msg.block \in Blocks /\ msg.job \in Images /\ msg.job # NoData
        BY <1>0, <1>4, StreamMsgFields, JobsAreImages, DataAssumption DEF LoopInv, IngestMessage
      <4>2. flash["upper"].body \in [Blocks -> Images \cup {NoData}]
        BY <1>0, BankFields DEF TypeOK, Banks
      <4>3. BlocksOf[pxC.job] \subseteq Blocks
        BY <3>1, JobsAreImages, DataAssumption
      <4>4. \A b \in BlocksOf[pxC.job] :
               flash'["upper"].body[b] = IF b = msg.block THEN msg.job ELSE flash["upper"].body[b]
        BY <3>3, <4>1, <4>2, <4>3
      <4> QED BY <3>1, <3>3, <4>1, <4>4 DEF BitmapMatchesFlash
    <3> QED BY <2>2, <3>2, <3>3 DEF IngestContinues, Stores
  <2>3. CASE IngestFails \/ IngestCompletes
    BY <2>3, NoFileFields DEF IngestFails, IngestCompletes, Closes, BitmapMatchesFlash
  <2> QED BY <1>0, <1>4, <2>1, <2>2, <2>3, IngestCases
<1>5. CASE \E f : Restarts(f)
  BY <1>0, <1>5, RestartFlash, NoFileFields DEF BitmapMatchesFlash
<1> QED BY <1>1, <1>2, <1>3, <1>4, <1>5 DEF FlashChanges

-----------------------------------------------------------------------------
(* The order of the jobs.                                                   *)

LEMMA StatusKinds ==
    ASSUME TypeOK, NEW i \in Jobs
    PROVE  /\ jobs[i] \in JobTypes /\ jobs[i].status \in Statuses /\ jobs[i].updater \in Nat
           /\ Done(i) \/ Tests(i) \/ jobs[i].status = "Queued"
           /\ ~(Done(i) /\ Tests(i)) /\ ~(Done(i) /\ jobs[i].status = "Queued")
BY DEF TypeOK, ServiceTypes, JobTypes, Statuses, Final, Done, Tests

\* What a step does to the status of one job.
StatusStep(i) ==
    \/ jobs'[i] = jobs[i]
    \/ ~Done(i) /\ jobs'[i].status \in Final
    \/ /\ ~Done(i) /\ i = activeJob
       /\ jobs'[i].status = "SelfTest" /\ jobs'[i].updater = RunningVersion

LEMMA ReportIsStatusStep ==
    ASSUME TypeOK, NEW j \in Jobs \cup {NoJob}, NEW status \in Final \cup {"SelfTest"}, NEW sent \in BOOLEAN,
           Reported(j, status, sent),
           status = "SelfTest" => j = activeJob /\ RunningVersion \in Nat
    PROVE  \A i \in Jobs : StatusStep(i)
<1>1. /\ jobs \in [Jobs -> JobTypes] /\ status \in Statuses \ {"Queued"}
  BY DEF TypeOK, ServiceTypes, JobTypes, Statuses, Final
<1>2. /\ \A i \in Jobs : i # j \/ Done(i) => jobs'[i] = jobs[i]
      /\ j \in Jobs => \/ jobs'[j] = jobs[j]
                       \/ /\ jobs'[j].status = status /\ ~Done(j)
                          /\ status = "SelfTest" => jobs'[j].updater = RunningVersion
  BY <1>1, ReportedJobs
<1> QED BY <1>2 DEF StatusStep

LEMMA StatusSteps ==
    ASSUME CoreInv, [Next]_vars
    PROVE  \A i \in Jobs : StatusStep(i)
<1>0. TypeOK /\ ControlInv /\ LoopInv /\ FileInv /\ FlashInv /\ activeJob \in Jobs \cup {NoJob}
  BY DEF CoreInv, TypeOK, AgentTypes
<1>1. CASE ReportImageState
  <2>1. PICK f \in Failing({"publish", "unsubscribe"}) :
           Reported(activeJob, JobStatus(setting), "publish" \notin f)
    BY <1>1 DEF ReportImageState
  <2>2. RunningVersion \in Nat
    BY <1>0, <1>1, RunningVersionType DEF ControlInv, ReportImageState
  <2>3. JobStatus(setting) \in Final \cup {"SelfTest"} /\ ("publish" \notin f) \in BOOLEAN
    BY DEF JobStatus, Final
  <2> QED BY <1>0, <2>1, <2>2, <2>3, ReportIsStatusStep
<1>2. CASE prvParseJobDoc
  <2>1. PICK f \in Failing({"publish", "unsubscribe"}) :
           Reported(msg.job, "Failed", "publish" \notin f) \/ UNCHANGED jobs
    BY <1>2 DEF prvParseJobDoc
  <2>2. msg.job \in Jobs \cup {NoJob} /\ "Failed" \in Final /\ ("publish" \notin f) \in BOOLEAN
    BY <1>0, <1>2, JobDocFields DEF LoopInv, prvParseJobDoc, Final
  <2>3. CASE Reported(msg.job, "Failed", "publish" \notin f)
    BY <1>0, <2>2, <2>3, ReportIsStatusStep
  <2> QED BY <2>1, <2>3 DEF StatusStep
<1>3. CASE IngestMessage
  <2>1. RunningVersion \in Nat
    BY <1>0, <1>3, RunningVersionType DEF ControlInv, IngestMessage
  <2>2. CASE \E sent \in BOOLEAN : Reported(activeJob, "Failed", sent)
    BY <1>0, <2>2, ReportIsStatusStep DEF Final
  <2>3. CASE \E sent \in BOOLEAN : Reported(activeJob, "SelfTest", sent)
    BY <1>0, <2>1, <2>3, ReportIsStatusStep
  <2>4. CASE UNCHANGED jobs
    BY <2>4 DEF StatusStep
  <2> QED
    BY <1>0, <1>3, <2>2, <2>3, <2>4, IngestCases
    DEF IngestPasses, IngestContinues, IngestFails, IngestCompletes
<1>4. ASSUME NEW j \in Jobs, ServiceCancels(j) PROVE \A i \in Jobs : StatusStep(i)
  <2>1. jobs' = [jobs EXCEPT ![j] = [status |-> "Canceled", updater |-> 0]] /\ ~Done(j)
    BY <1>4 DEF ServiceCancels, Done
  <2>2. jobs'[j].status = "Canceled" /\ \A i \in Jobs : i # j => jobs'[i] = jobs[i]
    BY <1>0, <2>1 DEF TypeOK, ServiceTypes
  <2> QED BY <2>1, <2>2 DEF StatusStep, Final
<1>5. CASE \/ TaskStarts \/ WaitBits \/ HandleUserAbort \/ EndOfLoop \/ HandleRequestTimeout
           \/ TakeMessage \/ SetImageState \/ prvProcessOTAJobMsg \/ StartSelfTest
           \/ prvAgentShutdownCleanup \/ TaskEnds \/ (\E f : Restarts(f))
           \/ OTA_AgentInit \/ OTA_AgentShutdown \/ OTA_AbortImage \/ OTA_CheckForUpdate
           \/ prvRequestTimer_Callback \/ ServiceAnswers \/ ServiceNotifies \/ StreamServes
           \/ Lost \/ prvOTAPublishCallback \/ UNCHANGED vars
  <2>1. UNCHANGED jobs
    BY <1>5
    DEF TaskStarts, WaitBits, HandleUserAbort, EndOfLoop, HandleRequestTimeout, TakeMessage,
        SetImageState, prvProcessOTAJobMsg, StartSelfTest, prvAgentShutdownCleanup, TaskEnds,
        Restarts, OTA_AgentInit, OTA_AgentShutdown, OTA_AbortImage, OTA_CheckForUpdate,
        prvRequestTimer_Callback, ServiceAnswers, ServiceNotifies, StreamServes, Lost,
        prvOTAPublishCallback, vars, serviceVars
  <2> QED BY <2>1 DEF StatusStep
<1> QED BY StepCases, <1>1, <1>2, <1>3, <1>4, <1>5

LEMMA StatusIsMonotone ==
    ASSUME CoreInv, [Next]_vars, NEW i \in Jobs
    PROVE  /\ Done(i) => Done(i)'
           /\ Tests(i)' => Tests(i) \/ (i = activeJob /\ ~Done(i))
           /\ jobs'[i].status = "Queued" => jobs[i].status = "Queued"
<1>1. StatusStep(i)
  BY StatusSteps
<1>2. \A s \in Final : s # "SelfTest" /\ s # "Queued"
  BY DEF Final
<1> QED BY <1>1, <1>2 DEF StatusStep, Done, Tests

-----------------------------------------------------------------------------
(* The messages on their way to the task.                                   *)

\* Nothing comes, but something may go.
Fades ==
    /\ activeJob' \in {activeJob, NoJob} /\ queue' \in {queue, <<>>}
    /\ msg' \in {msg, NoMsg}
    /\ arriving' \in {arriving, NoMsg} \cup StreamMsgs

\* The task takes a message, makes a job the active one, or a message comes into the
\* queue.
Takes ==
    /\ queue # <<>> /\ msg' = Head(queue) /\ queue' = Tail(queue)
    /\ UNCHANGED <<activeJob, arriving>>

Adopts ==
    /\ msg \in JobDocs /\ activeJob' = msg.job
    /\ UNCHANGED <<queue, msg, arriving>>

Delivers ==
    /\ queue' = Append(queue, arriving) /\ arriving' = NoMsg
    /\ UNCHANGED <<activeJob, msg>>

\* The service names the next job.
Announces ==
    /\ \E token \in {"null", "zero", "nonzero"} : arriving' = JobDoc(NextJob, token)
    /\ UNCHANGED <<jobs, flash, activeJob, queue, msg>>

LEMMA MailSteps ==
    ASSUME CoreInv, [Next]_vars
    PROVE  Fades \/ Takes \/ Adopts \/ Delivers \/ Announces
<1>0. TypeOK /\ ControlInv /\ LoopInv /\ FileInv /\ FlashInv
  BY DEF CoreInv
<1>1. CASE TaskStarts \/ WaitBits \/ HandleUserAbort \/ EndOfLoop \/ HandleRequestTimeout
  BY <1>1 DEF TaskStarts, WaitBits, HandleUserAbort, EndOfLoop, HandleRequestTimeout, Fades,
              agentVars, mailVars
<1>2. CASE TakeMessage
  BY <1>2 DEF TakeMessage, Takes, agentVars
<1>3. CASE SetImageState \/ ReportImageState
  BY <1>3 DEF SetImageState, ReportImageState, Fades, mailVars
<1>4. CASE prvParseJobDoc
  <2>1. activeJob' \in {activeJob, NoJob, msg.job} /\ msg \in JobDocs
    BY <1>0, <1>4 DEF prvParseJobDoc, LoopInv
  <2> QED BY <1>4, <2>1 DEF prvParseJobDoc, Fades, Adopts, mailVars
<1>5. CASE prvProcessOTAJobMsg \/ StartSelfTest
  BY <1>5 DEF prvProcessOTAJobMsg, StartSelfTest, Fades, mailVars
<1>6. CASE IngestMessage
  <2>1. activeJob' \in {activeJob, NoJob}
    BY <1>0, <1>6, IngestCases
    DEF IngestPasses, IngestContinues, IngestFails, IngestCompletes, Closes
  <2> QED BY <1>6, <2>1 DEF IngestMessage, Fades, mailVars
<1>7. CASE prvAgentShutdownCleanup \/ TaskEnds \/ (\E f : Restarts(f))
  BY <1>7 DEF prvAgentShutdownCleanup, TaskEnds, Restarts, ClearedAgent, Fades
<1>8. CASE OTA_AgentInit \/ OTA_AgentShutdown \/ OTA_AbortImage \/ OTA_CheckForUpdate
           \/ prvRequestTimer_Callback
  BY <1>8 DEF OTA_AgentInit, OTA_AgentShutdown, OTA_AbortImage, OTA_CheckForUpdate,
              prvRequestTimer_Callback, Fades, agentVars, mailVars, taskVars
<1>9. CASE ServiceAnswers
  <2>1. asked \in {"zero", "nonzero"} /\ arriving' = JobDoc(NextJob, asked)
    BY <1>0, <1>9 DEF ServiceAnswers, Arrives, TypeOK, ServiceTypes
  <2> QED BY <1>9, <2>1 DEF ServiceAnswers, Announces, agentVars, taskVars
<1>10. CASE ServiceNotifies
  <2>1. arriving' = JobDoc(NextJob, "null")
    BY <1>10 DEF ServiceNotifies, Arrives
  <2> QED BY <1>10, <2>1 DEF ServiceNotifies, Announces, agentVars, taskVars, serviceVars, deviceVars
<1>11. CASE StreamServes
  <2>1. arriving' \in StreamMsgs
    BY <1>0, <1>11 DEF StreamServes, Arrives, StreamMsgs, TypeOK, ServiceTypes
  <2> QED BY <1>11, <2>1 DEF StreamServes, Fades, agentVars, taskVars
<1>12. CASE Lost \/ (\E j \in Jobs : ServiceCancels(j))
  BY <1>12 DEF Lost, ServiceCancels, Fades, agentVars, mailVars, taskVars
<1>13. CASE prvOTAPublishCallback
  BY <1>13 DEF prvOTAPublishCallback, Fades, Delivers, agentVars
<1>14. CASE UNCHANGED vars
  BY <1>14 DEF vars, Fades, agentVars, mailVars, taskVars
<1> QED
  BY StepCases, <1>1, <1>2, <1>3, <1>4, <1>5, <1>6, <1>7, <1>8, <1>9, <1>10, <1>11, <1>12, <1>13, <1>14

LEMMA TakenQueue ==
    ASSUME TypeOK, Takes
    PROVE  /\ Len(queue) \in Nat \ {0} /\ Len(queue') = Len(queue) - 1
           /\ msg' = queue[1]
           /\ \A k \in 1 .. Len(queue') : queue'[k] = queue[k + 1] /\ k + 1 \in 1 .. Len(queue)
<1>1. queue \in Seq(Messages) /\ queue # <<>>
  BY DEF TypeOK, MailTypes, Takes
<1> QED BY <1>1 DEF Takes

LEMMA LongerQueue ==
    ASSUME TypeOK, Delivers
    PROVE  /\ Len(queue) \in Nat /\ Len(queue') = Len(queue) + 1
           /\ queue'[Len(queue) + 1] = arriving
           /\ \A k \in 1 .. Len(queue) : queue'[k] = queue[k]
<1>1. queue \in Seq(Messages)
  BY DEF TypeOK, MailTypes
<1> QED BY <1>1 DEF Delivers

\* What is under way after a step was under way before it, or has just been sent.
LEMMA MailAfter ==
    ASSUME CoreInv, [Next]_vars, NEW m \in Mail'
    PROVE  \/ m \in Mail \/ m = NoMsg \/ m \in StreamMsgs
           \/ Announces /\ m = arriving'
<1>0. TypeOK
  BY DEF CoreInv
<1>1. m = msg' \/ m = arriving' \/ \E k \in 1 .. Len(queue') : m = queue'[k]
  BY DEF Mail
<1>2. CASE Fades
  <2>1. ASSUME NEW k \in 1 .. Len(queue'), m = queue'[k] PROVE m \in Mail
    <3>1. CASE queue' = queue
      BY <2>1, <3>1 DEF Mail
    <3>2. CASE queue' = <<>>
      BY <2>1, <3>2
    <3> QED BY <1>2, <3>1, <3>2 DEF Fades
  <2> QED BY <1>1, <1>2, <2>1 DEF Fades, Mail
<1>3. CASE Takes
  <2>1. 1 \in 1 .. Len(queue)
    BY <1>0, <1>3, TakenQueue
  <2> QED BY <1>0, <1>1, <1>3, <2>1, TakenQueue DEF Takes, Mail
<1>4. CASE Adopts
  BY <1>1, <1>4 DEF Adopts, Mail
<1>5. CASE Delivers
  <2>1. ASSUME NEW k \in 1 .. Len(queue'), m = queue'[k] PROVE m \in Mail
    <3>1. k \in 1 .. Len(queue) \/ k = Len(queue) + 1
      BY <1>0, <1>5, <2>1, LongerQueue
    <3> QED BY <1>0, <1>5, <2>1, <3>1, LongerQueue DEF Mail
  <2> QED BY <1>1, <1>5, <2>1 DEF Delivers, Mail
<1>6. CASE Announces
  BY <1>1, <1>6 DEF Announces, Mail
<1> QED BY MailSteps, <1>2, <1>3, <1>4, <1>5, <1>6

\* A job becomes known only by being announced.
LEMMA KnownAfter ==
    ASSUME CoreInv, [Next]_vars, NEW i \in Jobs, Known(i)'
    PROVE  Known(i) \/ (Announces /\ i = NextJob)
<1>0. TypeOK /\ i # NoJob
  BY JobsAreImages DEF CoreInv
<1>1. CASE i = activeJob'
  <2>1. CASE Adopts
    <3>1. msg \in Mail /\ JobOf(msg) = i
      BY <1>1, <2>1, JobDocFields DEF Adopts, Mail
    <3> QED BY <3>1 DEF Known
  <2>2. CASE ~Adopts
    BY <1>0, <1>1, <2>2, MailSteps DEF Fades, Takes, Delivers, Announces, Known
  <2> QED BY <2>1, <2>2
<1>2. CASE \E m \in Mail' : JobOf(m) = i
  <2>1. PICK m \in Mail' : JobOf(m) = i
    BY <1>2
  <2>2. CASE m \in Mail
    BY <2>1, <2>2 DEF Known
  <2>3. CASE m = NoMsg \/ m \in StreamMsgs
    BY <1>0, <2>1, <2>3, NoMsgFields, StreamMsgFields
  <2>4. CASE Announces /\ m = arriving'
    <3>1. NextJob \in Jobs \cup {NoJob} /\ jobs \in [Jobs -> JobTypes]
      BY <1>0, NextJobIs DEF TypeOK, ServiceTypes, JobTypes
    <3>2. PICK token \in {"null", "zero", "nonzero"} : m = JobDoc(NextJob, token)
      BY <2>4 DEF Announces
    <3>3. JobOf(m) = NextJob
      BY <3>1, <3>2, JobDocType, JobDocFields
    <3> QED BY <2>1, <2>4, <3>3
  <2> QED BY <2>1, <2>2, <2>3, <2>4, MailAfter
<1> QED
  <2>1. i = activeJob' \/ \E m \in Mail' : JobOf(m) = i
    BY DEF Known
  <2> QED BY <2>1, <1>1, <1>2

\* Behind an active job that is not done, no other is under way.
LEMMA KnownIsActive ==
    ASSUME MailInOrder, activeJob \in Jobs, ~Done(activeJob), NEW i \in Jobs, Known(i)
    PROVE  i = activeJob
<1>1. CASE \E m \in Mail : JobOf(m) = i
  <2>1. Settled(activeJob, i)
    BY <1>1 DEF Mail, MailInOrder
  <2> QED BY <2>1 DEF Settled
<1> QED BY <1>1 DEF Known

LEMMA NextJobComesFirst ==
    ASSUME TypeOK, EarlierAreDone, TestComesFirst, NextJob \in Jobs
    PROVE  /\ \A i \in Jobs : Version[i] < Version[NextJob] => Done(i)
           /\ \A i \in Jobs : Known(i) => i = NextJob \/ Done(i)
           /\ \A i \in Jobs : Tests(i) => i = NextJob
<1>0. jobs \in [Jobs -> JobTypes] /\ NextJob # NoJob
  BY JobsAreImages DEF TypeOK, ServiceTypes, JobTypes
<1>1. CASE Tests(NextJob)
  BY <1>1 DEF EarlierAreDone, TestComesFirst
<1>2. CASE /\ jobs[NextJob].status = "Queued"
           /\ \A i \in Jobs : ~Tests(i)
           /\ \A i \in Jobs : jobs[i].status = "Queued" => Version[NextJob] <= Version[i]
  <2>1. \A i \in Jobs : Version[i] \in Nat
    BY ImagesAssumption, JobsAreImages
  <2>2. \A i \in Jobs : Done(i) \/ Version[NextJob] <= Version[i]
    BY <1>2, StatusKinds
  <2>3. ~Done(NextJob)
    BY <1>2, StatusKinds
  <2>4. ASSUME NEW i \in Jobs, Known(i), i # NextJob, ~Done(i) PROVE FALSE
    <3>1. Version[NextJob] < Version[i]
      BY <2>1, <2>2, <2>4, ImagesAssumption, JobsAreImages
    <3> QED BY <2>3, <2>4, <3>1 DEF EarlierAreDone
  <2>5. \A i \in Jobs : Version[i] < Version[NextJob] => Done(i)
    BY <2>1, <2>2
  <2> QED BY <1>2, <2>4, <2>5
<1> QED BY <1>0, <1>1, <1>2, NextJobIs

LEMMA StepKeepsEarlier == CoreInv /\ JobsInv /\ [Next]_vars => EarlierAreDone'
<1> SUFFICES ASSUME CoreInv, JobsInv, [Next]_vars,
                    NEW i \in Jobs, NEW j \in Jobs, (Known(j) \/ Tests(j))', Version[i] < Version[j]
             PROVE  Done(i)'
  BY DEF EarlierAreDone
<1>1. Known(j) \/ Tests(j) \/ (Announces /\ j = NextJob)
  <2>1. CASE Known(j)'
    BY <2>1, KnownAfter
  <2>2. CASE Tests(j)'
    BY <2>2, StatusIsMonotone DEF Known
  <2> QED BY <2>1, <2>2
<1>2. Done(i)
  BY <1>1, NextJobComesFirst DEF JobsInv, EarlierAreDone, CoreInv
<1> QED BY <1>2, StatusIsMonotone

LEMMA StepKeepsTest == CoreInv /\ JobsInv /\ [Next]_vars => TestComesFirst'
<1> SUFFICES ASSUME CoreInv, JobsInv, [Next]_vars,
                    NEW i \in Jobs, NEW j \in Jobs, Tests(j)', (Known(i) \/ Tests(i))'
             PROVE  i = j
  BY DEF TestComesFirst
<1>1. Tests(j) \/ (j = activeJob /\ ~Done(j))
  BY StatusIsMonotone
<1>2. Known(i) \/ Tests(i) \/ (Announces /\ i = NextJob)
  <2>1. CASE Known(i)'
    BY <2>1, KnownAfter
  <2>2. CASE Tests(i)'
    BY <2>2, StatusIsMonotone DEF Known
  <2> QED BY <2>1, <2>2
<1>3. CASE Known(i) \/ Tests(i)
  <2>1. CASE Tests(j)
    BY <1>3, <2>1 DEF JobsInv, TestComesFirst
  <2>2. CASE j = activeJob /\ ~Done(j)
    <3>1. Known(j)
      BY <2>2 DEF Known
    <3> QED BY <1>3, <2>2, <3>1, KnownIsActive DEF JobsInv, TestComesFirst
  <2> QED BY <1>1, <2>1, <2>2
<1>4. CASE Announces /\ i = NextJob
  <2>1. Tests(j)
    BY <1>4 DEF Announces, Tests
  <2> QED BY <1>4, <2>1, NextJobComesFirst DEF JobsInv, CoreInv
<1> QED BY <1>2, <1>3, <1>4

LEMMA StaysSettled ==
    ASSUME CoreInv, [Next]_vars, NEW i, NEW j, Settled(i, j)
    PROVE  Settled(i, j)'
BY StatusIsMonotone DEF Settled

LEMMA NobodyIsSettled ==
    ASSUME NEW i
    PROVE  Settled(NoJob, i) /\ Settled(i, NoJob) /\ Settled(i, i)
BY JobsAreImages DEF Settled

LEMMA StepKeepsOrder == CoreInv /\ JobsInv /\ [Next]_vars => MailInOrder'
<1> SUFFICES ASSUME CoreInv, JobsInv, [Next]_vars PROVE MailInOrder'
  OBVIOUS
<1>0. TypeOK /\ MailInOrder /\ EarlierAreDone /\ TestComesFirst
  BY DEF CoreInv, JobsInv
<1> DEFINE After(i, j) == i \in Jobs /\ j \in Jobs /\ i # j => jobs'[i].status \in Final
           Ordered ==
             /\ After(activeJob', JobOf(msg')) /\ After(activeJob', JobOf(arriving'))
             /\ After(JobOf(msg'), JobOf(arriving'))
             /\ \A k \in 1 .. Len(queue') :
                   /\ After(activeJob', JobOf(queue'[k])) /\ After(JobOf(msg'), JobOf(queue'[k]))
                   /\ After(JobOf(queue'[k]), JobOf(arriving'))
                   /\ \A l \in 1 .. Len(queue') : k < l => After(JobOf(queue'[k]), JobOf(queue'[l]))
<1>1. \A i, j : Settled(i, j) => After(i, j)
  BY StatusIsMonotone DEF Settled, Done
<1>2. \A i : After(NoJob, i) /\ After(i, NoJob) /\ After(i, i)
  BY JobsAreImages
<1>3. SUFFICES Ordered
  BY DEF MailInOrder, Settled, Done
<1>4. /\ After(activeJob, JobOf(msg)) /\ After(activeJob, JobOf(arriving))
      /\ After(JobOf(msg), JobOf(arriving))
      /\ \A k \in 1 .. Len(queue) :
            /\ After(activeJob, JobOf(queue[k])) /\ After(JobOf(msg), JobOf(queue[k]))
            /\ After(JobOf(queue[k]), JobOf(arriving))
            /\ \A l \in 1 .. Len(queue) : k < l => After(JobOf(queue[k]), JobOf(queue[l]))
  BY <1>0, <1>1 DEF MailInOrder
<1>5. Len(queue) \in Nat
  BY <1>0, QueueType DEF TypeOK
<1>6. CASE Fades
  <2>1. /\ JobOf(msg') \in {JobOf(msg), NoJob} /\ JobOf(arriving') \in {JobOf(arriving), NoJob}
        /\ activeJob' \in {activeJob, NoJob}
    BY <1>6, NoMsgFields, StreamMsgFields DEF Fades
  <2>2. queue' = queue \/ (queue' = <<>> /\ Len(queue') = 0)
    BY <1>6, EmptyQueue DEF Fades
  <2> HIDE DEF After
  <2> QED BY <1>2, <1>4, <2>1, <2>2
<1>7. CASE Takes
  <2>1. /\ 1 \in 1 .. Len(queue) /\ Len(queue') = Len(queue) - 1 /\ msg' = queue[1]
        /\ \A k \in 1 .. Len(queue') : queue'[k] = queue[k + 1] /\ k + 1 \in 1 .. Len(queue)
    BY <1>0, <1>7, TakenQueue
  <2>2. activeJob' = activeJob /\ arriving' = arriving
    BY <1>7 DEF Takes
  <2> HIDE DEF After
  <2>3. /\ After(activeJob', JobOf(msg')) /\ After(activeJob', JobOf(arriving'))
        /\ After(JobOf(msg'), JobOf(arriving'))
    BY <1>4, <2>1, <2>2
  <2>4. ASSUME NEW k \in 1 .. Len(queue')
        PROVE  /\ After(activeJob', JobOf(queue'[k])) /\ After(JobOf(msg'), JobOf(queue'[k]))
               /\ After(JobOf(queue'[k]), JobOf(arriving'))
    <3>1. queue'[k] = queue[k + 1] /\ k + 1 \in 1 .. Len(queue) /\ 1 < k + 1
      BY <1>5, <2>1
    <3> QED BY <1>4, <2>1, <2>2, <3>1
  <2>5. ASSUME NEW k \in 1 .. Len(queue'), NEW l \in 1 .. Len(queue'), k < l
        PROVE  After(JobOf(queue'[k]), JobOf(queue'[l]))
    <3>1. /\ queue'[k] = queue[k + 1] /\ k + 1 \in 1 .. Len(queue)
          /\ queue'[l] = queue[l + 1] /\ l + 1 \in 1 .. Len(queue) /\ k + 1 < l + 1
      BY <1>5, <2>1, <2>5
    <3> QED BY <1>4, <3>1
  <2> QED BY <2>3, <2>4, <2>5
<1>8. CASE Adopts
  <2>1. activeJob' = JobOf(msg) /\ UNCHANGED <<queue, msg, arriving>>
    BY <1>8, JobDocFields DEF Adopts
  <2> HIDE DEF After
  <2> QED BY <1>2, <1>4, <2>1
<1>9. CASE Delivers
  <2>1. /\ Len(queue') = Len(queue) + 1 /\ queue'[Len(queue) + 1] = arriving
        /\ \A k \in 1 .. Len(queue) : queue'[k] = queue[k]
        /\ JobOf(arriving') = NoJob /\ activeJob' = activeJob /\ msg' = msg
    BY <1>0, <1>9, LongerQueue, NoMsgFields DEF Delivers
  <2> HIDE DEF After
  <2>2. ASSUME NEW k \in 1 .. Len(queue')
        PROVE  /\ After(activeJob', JobOf(queue'[k])) /\ After(JobOf(msg'), JobOf(queue'[k]))
               /\ After(JobOf(queue'[k]), JobOf(arriving'))
    <3>1. k \in 1 .. Len(queue) \/ k = Len(queue) + 1
      BY <1>5, <2>1
    <3> QED BY <1>2, <1>4, <2>1, <3>1
  <2>3. ASSUME NEW k \in 1 .. Len(queue'), NEW l \in 1 .. Len(queue'), k < l
        PROVE  After(JobOf(queue'[k]), JobOf(queue'[l]))
    <3>1. k \in 1 .. Len(queue) /\ (l \in 1 .. Len(queue) \/ l = Len(queue) + 1)
      BY <1>5, <2>1, <2>3
    <3> QED BY <1>4, <2>1, <2>3, <3>1
  <2> QED BY <1>2, <1>4, <2>1, <2>2, <2>3
<1>10. CASE Announces
  <2>1. jobs \in [Jobs -> JobTypes] /\ NextJob \in Jobs \cup {NoJob}
    BY <1>0, NextJobIs DEF TypeOK, ServiceTypes, JobTypes
  <2>2. JobOf(arriving') = NextJob
    BY <1>10, <2>1, JobDocType, JobDocFields DEF Announces
  <2>3. UNCHANGED <<activeJob, queue, msg, jobs>>
    BY <1>10 DEF Announces
  <2>4. ASSUME NEW i, Known(i) PROVE After(i, NextJob)
    BY <1>0, <2>3, <2>4, NextJobComesFirst DEF Done
  <2>5. /\ Known(activeJob) /\ Known(JobOf(msg))
        /\ \A k \in 1 .. Len(queue) : Known(JobOf(queue[k]))
    BY DEF Known, Mail
  <2> HIDE DEF After
  <2> QED BY <1>4, <2>2, <2>3, <2>4, <2>5
<1> HIDE DEF After
<1> QED BY MailSteps, <1>6, <1>7, <1>8, <1>9, <1>10

LEMMA StepKeepsJobs == CoreInv /\ JobsInv /\ [Next]_vars => JobsInv'
BY StepKeepsEarlier, StepKeepsTest, StepKeepsOrder DEF JobsInv

-----------------------------------------------------------------------------
(* The banks, the documents and the verdict.                                *)

\* Which steps change the status of a job.
LEMMA StatusChanges ==
    ASSUME CoreInv, [Next]_vars, NEW i \in Jobs, jobs'[i] # jobs[i]
    PROVE  \/ /\ ReportImageState /\ i = activeJob /\ ~Done(i)
              /\ jobs'[i].status = JobStatus(setting)
           \/ IngestCompletes /\ i = activeJob /\ ~Done(i) /\ jobs'[i].status = "SelfTest"
           \/ jobs'[i].status \in {"Failed", "Canceled"}
<1>0. /\ TypeOK /\ ControlInv /\ LoopInv /\ FileInv /\ FlashInv
      /\ jobs \in [Jobs -> JobTypes] /\ activeJob \in Jobs \cup {NoJob}
  BY DEF CoreInv, TypeOK, AgentTypes, ServiceTypes, JobTypes
<1>1. ASSUME NEW j \in Jobs \cup {NoJob}, NEW status \in Final \cup {"SelfTest"}, NEW sent \in BOOLEAN,
             Reported(j, status, sent), status = "SelfTest" => RunningVersion \in Nat
      PROVE  i = j /\ ~Done(i) /\ jobs'[i].status = status
  <2>1. status \in Statuses \ {"Queued"}
    BY DEF Statuses, Final
  <2> QED BY <1>0, <1>1, <2>1, ReportedJobs
<1>2. CASE ReportImageState
  <2>1. PICK f \in Failing({"publish", "unsubscribe"}) :
           Reported(activeJob, JobStatus(setting), "publish" \notin f)
    BY <1>2 DEF ReportImageState
  <2>2. RunningVersion \in Nat
    BY <1>0, <1>2, RunningVersionType DEF ControlInv, ReportImageState
  <2>3. JobStatus(setting) \in Final \cup {"SelfTest"} /\ ("publish" \notin f) \in BOOLEAN
    BY DEF JobStatus, Final
  <2> QED BY <1>0, <1>1, <1>2, <2>1, <2>2, <2>3
<1>3. CASE prvParseJobDoc
  <2>1. PICK f \in Failing({"publish", "unsubscribe"}) :
           Reported(msg.job, "Failed", "publish" \notin f) \/ UNCHANGED jobs
    BY <1>3 DEF prvParseJobDoc
  <2>2. msg.job \in Jobs \cup {NoJob} /\ "Failed" \in Final /\ ("publish" \notin f) \in BOOLEAN
    BY <1>0, <1>3, JobDocFields DEF LoopInv, prvParseJobDoc, Final
  <2> QED BY <1>1, <2>1, <2>2
<1>4. CASE IngestMessage
  <2>1. RunningVersion \in Nat
    BY <1>0, <1>4, RunningVersionType DEF ControlInv, IngestMessage
  <2>2. CASE IngestFails
    <3>1. PICK sent \in BOOLEAN : Reported(activeJob, "Failed", sent)
      BY <2>2 DEF IngestFails
    <3> QED BY <1>0, <1>1, <3>1 DEF Final
  <2>3. CASE IngestCompletes
    <3>1. PICK sent \in BOOLEAN : Reported(activeJob, "SelfTest", sent)
      BY <2>3 DEF IngestCompletes
    <3> QED BY <1>0, <1>1, <2>1, <2>3, <3>1
  <2>4. CASE IngestPasses \/ IngestContinues
    BY <2>4 DEF IngestPasses, IngestContinues
  <2> QED BY <1>0, <1>4, <2>2, <2>3, <2>4, IngestCases
<1>5. ASSUME NEW j \in Jobs, ServiceCancels(j) PROVE jobs'[i].status = "Canceled"
  <2>1. jobs' = [jobs EXCEPT ![j] = [status |-> "Canceled", updater |-> 0]]
    BY <1>5 DEF ServiceCancels
  <2>2. jobs'[j].status = "Canceled" /\ (i # j => jobs'[i] = jobs[i])
    BY <1>0, <2>1
  <2> QED BY <2>2
<1> QED
  BY StepCases, <1>2, <1>3, <1>4, <1>5
  DEF TaskStarts, WaitBits, HandleUserAbort, EndOfLoop, HandleRequestTimeout, TakeMessage,
      SetImageState, prvProcessOTAJobMsg, StartSelfTest, prvAgentShutdownCleanup, TaskEnds,
      Restarts, OTA_AgentInit, OTA_AgentShutdown, OTA_AbortImage, OTA_CheckForUpdate,
      prvRequestTimer_Callback, ServiceAnswers, ServiceNotifies, StreamServes, Lost,
      prvOTAPublishCallback, vars, serviceVars

\* Without a reset the same image runs.
LEMMA LowerStays ==
    ASSUME CoreInv, [Next]_vars, ~\E f : Restarts(f)
    PROVE  /\ KeepsLower(flash, flash') /\ boot' = boot
           /\ flash'["lower"].flag # "NoImage" => flash["lower"].flag # "NoImage"
           /\ RunningVersion' = RunningVersion
<1>0. TypeOK /\ ControlInv /\ LoopInv /\ FileInv /\ FlashInv
  BY DEF CoreInv
<1>1. KeepsLower(flash, flash') /\ boot' = boot
  <2>1. CASE ~FlashChanges
    BY <2>1, QuietSteps DEF KeepsLower
  <2>2. CASE SetImageState
    BY <1>0, <2>2, SetImageStateFlash
  <2>3. CASE prvProcessOTAJobMsg
    BY <2>3, ProcessFlash DEF KeepsLower
  <2>4. CASE IngestMessage
    BY <1>0, <2>4, IngestCases
    DEF IngestPasses, IngestContinues, Stores, IngestFails, IngestCompletes, KeepsLower,
        IngestMessage
  <2> QED BY <2>1, <2>2, <2>3, <2>4 DEF FlashChanges
<1>2. flash'["lower"].body = flash["lower"].body
  BY <1>1 DEF KeepsLower
<1>3. ImageOf(flash'["lower"]) = ImageOf(flash["lower"])
  BY <1>2 DEF ImageOf, Holds
<1> QED BY <1>1, <1>3 DEF KeepsLower, InSelfTest, RunningVersion, Running

\* What is in a bank after a step: the job's image that was received, or nothing that
\* was not in a bank before.
LEMMA BankAfter ==
    ASSUME CoreInv, [Next]_vars, NEW k \in Banks, flash'[k].flag # "NoImage", Authentic(flash'[k])
    PROVE  \/ \E o \in Banks : flash[o].flag # "NoImage" /\ flash'[k].body = flash[o].body
           \/ IngestCompletes /\ Holds(flash'[k], activeJob)
<1>0. TypeOK /\ ControlInv /\ LoopInv /\ FileInv /\ FlashInv
  BY DEF CoreInv
<1>1. CASE \E f : Restarts(f)
  BY <1>0, <1>1, RestartFlash
<1>2. CASE ~(\E f : Restarts(f)) /\ k = "lower"
  BY <1>2, LowerStays DEF KeepsLower
<1>3. CASE ~(\E f : Restarts(f)) /\ k = "upper"
  <2>1. CASE ~FlashChanges
    BY <2>1, QuietSteps
  <2>2. CASE SetImageState \/ prvProcessOTAJobMsg
    <3>1. flash'["upper"] \in {flash["upper"], ErasedBank}
      BY <1>0, <2>2, SetImageStateFlash, ProcessFlash
    <3> QED BY <1>3, <3>1, ErasedBankType
  <2>3. CASE IngestMessage
    <3>1. CASE IngestPasses
      BY <3>1 DEF IngestPasses
    <3>2. CASE IngestContinues
      <4>1. flash["upper"].flag = "NoImage"
        BY <1>0, <2>3, <3>2 DEF IngestContinues, FlashInv, IngestMessage
      <4> QED BY <1>3, <3>2, <4>1 DEF IngestContinues, Stores
    <3>3. CASE IngestFails
      BY <1>3, <3>3, ErasedIsNotAuthentic DEF IngestFails
    <3>4. CASE IngestCompletes
      BY <1>0, <1>3, <3>4 DEF IngestCompletes, FileInv
    <3> QED BY <1>0, <2>3, <3>1, <3>2, <3>3, <3>4, IngestCases
  <2> QED BY <1>3, <2>1, <2>2, <2>3 DEF FlashChanges
<1> QED BY <1>1, <1>2, <1>3 DEF Banks

LEMMA StepKeepsBanks ==
    CoreInv /\ JobsInv /\ BanksInv /\ VerdictInv /\ [Next]_vars => BanksInv'
<1> SUFFICES ASSUME CoreInv, JobsInv, BanksInv, VerdictInv, [Next]_vars,
                    NEW j \in Jobs, Tests(j)', NEW k \in Banks,
                    flash'[k].flag # "NoImage", Authentic(flash'[k])
             PROVE  Holds(flash'[k], j) \/ Version[ImageOf(flash'[k])] <= jobs'[j].updater
  BY DEF BanksInv, NoNewer
<1>0. TypeOK /\ ControlInv /\ LoopInv /\ FileInv /\ FlashInv /\ TestComesFirst
  BY DEF CoreInv, JobsInv
<1>1. CASE jobs'[j] = jobs[j]
  <2>1. Tests(j) /\ NoNewer(flash["lower"], j, jobs[j].updater) /\ NoNewer(flash["upper"], j, jobs[j].updater)
    BY <1>1 DEF BanksInv, Tests, Banks
  <2>2. CASE \E o \in Banks : flash[o].flag # "NoImage" /\ flash'[k].body = flash[o].body
    <3>1. PICK o \in Banks : flash[o].flag # "NoImage" /\ flash'[k].body = flash[o].body
      BY <2>2
    <3>2. Authentic(flash[o]) /\ ImageOf(flash'[k]) = ImageOf(flash[o])
          /\ (Holds(flash[o], j) => Holds(flash'[k], j))
      BY <3>1, SameBody
    <3>3. NoNewer(flash[o], j, jobs[j].updater)
      BY <2>1 DEF Banks
    <3> QED BY <1>1, <3>1, <3>2, <3>3 DEF NoNewer
  <2>3. CASE IngestCompletes /\ Holds(flash'[k], activeJob)
    <3>1. activeJob \in Jobs /\ Known(activeJob)
      BY <1>0, <2>3 DEF IngestCompletes, FileInv, Known
    <3>2. activeJob = j
      BY <1>0, <2>1, <3>1 DEF TestComesFirst
    <3> QED BY <2>3, <3>2
  <2> QED BY <2>2, <2>3, BankAfter
\* The job has been reported to be in self test.
<1>2. CASE jobs'[j] # jobs[j]
  <2>1. /\ j = activeJob /\ ~Done(j) /\ jobs'[j].updater = RunningVersion
        /\ IngestCompletes \/ (ReportImageState /\ setting = "Testing")
    <3>1. StatusStep(j)
      BY StatusSteps
    <3>2. j = activeJob /\ ~Done(j) /\ jobs'[j].updater = RunningVersion
      BY <1>2, <3>1 DEF StatusStep, Tests, Final
    <3> QED BY <1>2, <3>2, StatusChanges DEF Tests, JobStatus
  <2>2. CASE IngestCompletes
    <3>1. CASE k = "upper"
      BY <1>0, <2>1, <2>2, <3>1 DEF IngestCompletes, FileInv
    <3>2. CASE k = "lower"
      <4>1. flash'[k] = flash["lower"]
        BY <2>2, <3>2 DEF IngestCompletes
      <4>2. Version[ImageOf(flash'[k])] = RunningVersion /\ RunningVersion \in Nat
        BY <4>1, VersionOfBank DEF RunningVersion, Running
      <4> QED BY <2>1, <4>2
    <3> QED BY <3>1, <3>2 DEF Banks
  <2>3. CASE ReportImageState /\ setting = "Testing"
    <3>1. flash' = flash
      BY <2>3 DEF ReportImageState
    <3>2. Holds(flash["lower"], j) /\ jobs[j].updater <= RunningVersion /\ Tests(j)
      BY <1>0, <2>1, <2>3, StatusKinds DEF VerdictInv, Tested, ReportImageState
    <3>3. NoNewer(flash[k], j, jobs[j].updater)
      BY <3>2 DEF BanksInv
    <3>4. /\ Version[ImageOf(flash[k])] \in Nat /\ RunningVersion \in Nat
          /\ jobs[j].updater \in Nat
      <4>1. boot = "run"
        BY <1>0, <2>3 DEF ControlInv, ReportImageState
      <4> QED BY <1>0, <3>1, <4>1, VersionOfBank, RunningVersionType, StatusKinds
    <3> QED BY <2>1, <3>1, <3>2, <3>3, <3>4 DEF NoNewer
  <2> QED BY <2>1, <2>2, <2>3
<1> QED BY <1>1, <1>2

LEMMA StepKeepsDocs ==
    CoreInv /\ BanksInv /\ DocsInv /\ [Next]_vars => DocsInv'
<1> SUFFICES ASSUME CoreInv, BanksInv, DocsInv, [Next]_vars,
                    NEW m \in Mail', m.type = "job", m.selfTest
             PROVE  DocFits(m)'
  BY DEF DocsInv, DocFits
<1>0. TypeOK /\ ControlInv
  BY DEF CoreInv
<1>1. CASE \E f : Restarts(f)
  <2>1. m = NoMsg
    BY <1>1, EmptyQueue DEF Mail, Restarts, ClearedAgent
  <2> QED BY <2>1, NoMsgFields
<1>2. CASE Announces /\ m = arriving'
  <2>1. jobs \in [Jobs -> JobTypes] /\ NextJob \in Jobs \cup {NoJob}
    BY <1>0, NextJobIs DEF TypeOK, ServiceTypes, JobTypes
  <2>2. PICK token \in {"null", "zero", "nonzero"} : m = JobDoc(NextJob, token)
    BY <1>2 DEF Announces
  <2>3. m.job = NextJob /\ NextJob \in Jobs /\ Tests(NextJob) /\ m.updater = jobs[NextJob].updater
    BY <2>1, <2>2, JobDocType
  <2>4. jobs[NextJob].status # "Queued" /\ NoNewer(flash["lower"], NextJob, m.updater)
    BY <2>3 DEF Tests, BanksInv, Banks
  <2>5. flash' = flash /\ jobs' = jobs
    BY <1>2 DEF Announces
  <2> QED BY <2>3, <2>4, <2>5 DEF DocFits
<1>3. CASE m \in Mail /\ ~\E f : Restarts(f)
  <2>1. /\ m.job \in Jobs /\ jobs[m.job].status # "Queued"
        /\ Tests(m.job) =>
              /\ jobs[m.job].updater \in {m.updater, RunningVersion}
              /\ NoNewer(flash["lower"], m.job, m.updater)
    BY <1>3 DEF DocsInv, DocFits
  <2>2. jobs'[m.job].status # "Queued"
    BY <2>1, StatusIsMonotone
  <2>3. ASSUME Tests(m.job)'
        PROVE  /\ jobs'[m.job].updater \in {m.updater, RunningVersion}
               /\ NoNewer(flash["lower"], m.job, m.updater)
    <3>1. StatusStep(m.job)
      BY <2>1, StatusSteps
    <3>2. Tests(m.job)
      BY <1>0, <2>1, <2>3, <3>1, StatusKinds DEF StatusStep, Tests, Final
    <3> QED BY <2>1, <2>3, <3>1, <3>2 DEF StatusStep, Tests, Final
  <2>4. NoNewer(flash["lower"], m.job, m.updater) => NoNewer(flash'["lower"], m.job, m.updater)
    BY <1>3, LowerStays, SameBody DEF KeepsLower, NoNewer
  <2>5. RunningVersion' = RunningVersion
    BY <1>3, LowerStays
  <2> QED BY <2>1, <2>2, <2>3, <2>4, <2>5 DEF DocFits
<1>4. CASE m = NoMsg \/ m \in StreamMsgs
  BY <1>4, NoMsgFields, StreamMsgFields
<1> QED BY MailAfter, <1>1, <1>2, <1>3, <1>4

LEMMA TestedStays ==
    ASSUME CoreInv, [Next]_vars, Tested, activeJob' = activeJob, ~\E f : Restarts(f)
    PROVE  Tested'
<1>0. TypeOK
  BY DEF CoreInv
<1>1. activeJob \in Jobs /\ jobs[activeJob].status # "Queued"
  BY DEF Tested
<1>2. jobs'[activeJob].status # "Queued"
  BY <1>1, StatusIsMonotone
<1>3. ASSUME Tests(activeJob)'
      PROVE  Holds(flash'["lower"], activeJob) /\ jobs'[activeJob].updater <= RunningVersion'
  <2>1. StatusStep(activeJob) /\ RunningVersion' = RunningVersion
    BY <1>1, StatusSteps, LowerStays
  <2>2. Tests(activeJob)
    BY <1>0, <1>1, <1>3, <2>1, StatusKinds DEF StatusStep, Tests, Final
  <2>3. Holds(flash["lower"], activeJob) /\ jobs[activeJob].updater <= RunningVersion
    BY <2>2 DEF Tested
  <2>4. Holds(flash'["lower"], activeJob)
    BY <2>3, LowerStays, SameBody DEF KeepsLower
  <2>5. RunningVersion <= RunningVersion
    <3>1. boot = "run" => RunningVersion \in Nat
      BY RunningVersionType DEF CoreInv
    <3>2. activeJob # NoJob => boot = "run"
      BY DEF CoreInv, ControlInv
    <3> QED BY <1>1, <3>1, <3>2, JobsAreImages
  <2> QED BY <1>3, <2>1, <2>3, <2>4, <2>5 DEF StatusStep, Tests, Final
<1> QED BY <1>1, <1>2, <1>3 DEF Tested

\* A verdict is asked for when the running image is that of the job, received by an
\* older one.
LEMMA ParsedForTest ==
    ASSUME CoreInv, DocsInv, prvParseJobDoc, pc' = "set", setting' = "Testing"
    PROVE  Tested'
<1>0. TypeOK /\ ControlInv /\ LoopInv /\ FlashInv
  BY DEF CoreInv
<1>1. msg \in JobDocs /\ boot = "run" /\ boot' = boot /\ flash' = flash
  BY <1>0 DEF prvParseJobDoc, LoopInv, ControlInv
<1>2. /\ activeJob' = msg.job /\ msg.selfTest /\ jobs' = jobs /\ msg.updater < RunningVersion
  BY DEF prvParseJobDoc, SelfTestVerdict, Calls, GoesTo
<1>3. /\ msg.job \in Jobs /\ jobs[msg.job].status # "Queued"
      /\ Tests(msg.job) =>
            /\ jobs[msg.job].updater \in {msg.updater, RunningVersion}
            /\ NoNewer(flash["lower"], msg.job, msg.updater)
  BY <1>1, <1>2, JobDocFields DEF DocsInv, DocFits, Mail
<1>4. msg.updater \in Nat /\ RunningVersion \in Nat
  BY <1>0, <1>1, JobDocFields, RunningVersionType
<1>5. NoNewer(flash["lower"], msg.job, msg.updater) => Holds(flash["lower"], msg.job)
  BY <1>0, <1>1, <1>2, <1>4 DEF NoNewer, FlashInv, RunningVersion, Running
<1>6. Tests(msg.job) => Holds(flash["lower"], msg.job) /\ jobs[msg.job].updater <= RunningVersion
  BY <1>2, <1>3, <1>4, <1>5
<1> QED BY <1>1, <1>2, <1>3, <1>6 DEF Tested, Tests, RunningVersion, Running

LEMMA StepKeepsVerdict ==
    CoreInv /\ DocsInv /\ VerdictInv /\ [Next]_vars => VerdictInv'
<1> SUFFICES ASSUME CoreInv, DocsInv, VerdictInv, [Next]_vars PROVE VerdictInv'
  OBVIOUS
<1>0. TypeOK /\ ControlInv /\ LoopInv /\ FileInv /\ FlashInv
  BY DEF CoreInv
\* The task is elsewhere, and does not go where the verdict is given.
<1>1. CASE /\ pc \notin {"set", "report", "selftest"} /\ eImageState' = eImageState
           /\ pc' \notin {"set", "report"} \/ setting' \notin {"Testing", "Accepted"}
  BY <1>1 DEF VerdictInv
\* Other tasks and the services do not interfere.
<1>2. CASE UNCHANGED <<flash, pc, setting, eImageState, activeJob>> /\ ~\E f : Restarts(f)
  BY <1>2, TestedStays DEF VerdictInv
<1>3. CASE TaskStarts \/ WaitBits \/ HandleUserAbort \/ EndOfLoop
  BY <1>1, <1>3
  DEF TaskStarts, WaitBits, HandleUserAbort, EndOfLoop, GoesTo, Calls, agentVars
<1>4. CASE HandleRequestTimeout
  BY <1>1, <1>4 DEF HandleRequestTimeout, prvPublishGetStreamMessage, GoesTo, Calls, agentVars
<1>5. CASE TakeMessage
  <2>1. pc' \notin {"set", "report"} \/ setting' = "Aborted"
    BY <1>0, <1>5, TakeMessageGoes
  <2> QED BY <1>1, <1>5, <2>1 DEF TakeMessage, agentVars
<1>6. CASE SetImageState
  <2>1. activeJob' = activeJob /\ ~\E f : Restarts(f)
    BY <1>6 DEF SetImageState, Restarts
  <2>2. setting' \in {"Testing", "Accepted"} => Tested'
    BY <1>0, <1>6, <2>1, SetImageStateFlash, TestedStays DEF VerdictInv, SetImageState
  <2> QED BY <1>0, <1>6, <2>2, SetImageStateFlash DEF VerdictInv
<1>7. CASE ReportImageState
  <2>1. eImageState' = eImageState /\ setting' = "Unknown" /\ pc = "report"
    BY <1>7 DEF ReportImageState
  <2>2. ASSUME eImageState = "Testing" PROVE pc' = "selftest" /\ Tested'
    <3>1. setting = "Testing" /\ Tested /\ ret = "selftest"
      BY <1>0, <2>1, <2>2 DEF VerdictInv, LoopInv
    <3>2. pc' = "selftest" /\ activeJob' = activeJob
      BY <1>7, <3>1 DEF ReportImageState
    <3>3. ~\E f : Restarts(f)
      BY <3>2 DEF Restarts
    <3> QED BY <3>1, <3>2, <3>3, TestedStays
  <2> QED BY <2>1, <2>2 DEF VerdictInv
<1>8. CASE prvParseJobDoc
  <2>1. eImageState' = eImageState /\ eImageState # "Testing"
    BY <1>8 DEF prvParseJobDoc, VerdictInv
  <2>2. pc' # "report" /\ (pc' = "set" => setting' \in {"Testing", "Rejected"})
    BY <1>8 DEF prvParseJobDoc, SelfTestVerdict, GoesTo, Calls
  <2> QED BY <1>8, <2>1, <2>2, ParsedForTest DEF VerdictInv
<1>9. CASE prvProcessOTAJobMsg
  BY <1>1, <1>9
  DEF prvProcessOTAJobMsg, ReturnsBareContext, CannotReceive, StartsTransfer, GoesTo, Calls
<1>10. CASE StartSelfTest
  <2>1. activeJob' = activeJob /\ eImageState' = eImageState /\ ~\E f : Restarts(f)
    BY <1>10 DEF StartSelfTest, Restarts, GoesTo, Calls
  <2>2. CASE eImageState # "Testing"
    BY <1>10, <2>1, <2>2 DEF StartSelfTest, VerdictInv, GoesTo
  <2>3. CASE eImageState = "Testing"
    <3>1. Tested'
      BY <2>1, <2>3, TestedStays DEF VerdictInv
    <3>2. pc' = "set" /\ setting' \in {"Accepted", "Rejected"}
      BY <1>10, <2>3, VerdictsAssumption DEF StartSelfTest, Calls
    <3> QED BY <3>1, <3>2 DEF VerdictInv
  <2> QED BY <2>2, <2>3
<1>11. CASE IngestMessage
  <2>1. pc' \in {"messages", "reset"}
    BY <1>0, <1>11, IngestCases
    DEF IngestPasses, IngestContinues, IngestFails, IngestCompletes, GoesTo
  <2> QED BY <1>1, <1>11, <2>1 DEF IngestMessage
<1>12. CASE prvAgentShutdownCleanup
  BY <1>1, <1>12 DEF prvAgentShutdownCleanup, GoesTo
<1>13. CASE TaskEnds \/ \E f : Restarts(f)
  BY <1>13 DEF TaskEnds, Restarts, ClearedAgent, VerdictInv
<1>14. CASE /\ ~\E f : Restarts(f)
            /\ \/ OTA_AgentInit \/ OTA_AgentShutdown \/ OTA_AbortImage \/ OTA_CheckForUpdate
               \/ prvRequestTimer_Callback \/ ServiceAnswers \/ ServiceNotifies \/ StreamServes
               \/ Lost \/ (\E j \in Jobs : ServiceCancels(j)) \/ UNCHANGED vars
  BY <1>1, <1>2, <1>14
  DEF OTA_AgentInit, OTA_AgentShutdown, OTA_AbortImage, OTA_CheckForUpdate,
      prvRequestTimer_Callback, ServiceAnswers, ServiceNotifies, StreamServes, Lost,
      ServiceCancels, vars, agentVars, taskVars, deviceVars
<1>15. CASE prvOTAPublishCallback /\ ~\E f : Restarts(f)
  BY <1>1, <1>2, <1>15 DEF prvOTAPublishCallback, AgentRuns, agentVars, deviceVars
<1> QED
  BY StepCases, <1>3, <1>4, <1>5, <1>6, <1>7, <1>8, <1>9, <1>10, <1>11, <1>12, <1>13, <1>14, <1>15

-----------------------------------------------------------------------------
(* The inductive invariant holds.                                           *)

LEMMA InitialInv == Init => IInv
<1> SUFFICES ASSUME Init PROVE IInv
  OBVIOUS
<1>1. TypeOK
  BY InitType
<1>2. ControlInv /\ LoopInv /\ FileInv /\ EventInv /\ BitmapMatchesFlash
  BY NoFileFields DEF Init, ControlInv, LoopInv, FileInv, EventInv, BitmapMatchesFlash
<1>3. FlashInv
  <2>1. \A b \in BlocksOf[Factory] : flash["lower"].body[b] = Factory
    BY ImagesAssumption, DataAssumption DEF Init, FactoryFlash
  <2>2. Authentic(flash["lower"]) /\ flash["lower"].flag = "Valid"
    BY <2>1, ImagesAssumption DEF Init, FactoryFlash, Authentic, Holds
  <2> QED BY <2>2, NoFileFields DEF Init, FlashInv
<1>4. /\ Mail = {NoMsg} /\ \A i \in Jobs : ~Known(i) /\ ~Tests(i)
      /\ Len(queue) = 0 /\ JobOf(msg) = NoJob /\ JobOf(arriving) = NoJob
  <2>1. Len(queue) = 0 /\ Mail = {NoMsg}
    BY EmptyQueue DEF Init, Mail
  <2>2. \A i \in Jobs : ~Known(i) /\ ~Tests(i)
    BY <2>1, JobsAreImages, NoMsgFields DEF Init, Known, Tests
  <2> QED BY <2>1, <2>2, NoMsgFields DEF Init
<1>5. JobsInv
  BY <1>4, NobodyIsSettled DEF JobsInv, EarlierAreDone, TestComesFirst, MailInOrder
<1>6. BanksInv /\ DocsInv /\ VerdictInv
  BY <1>4, NoMsgFields DEF Init, BanksInv, DocsInv, DocFits, VerdictInv
<1> QED BY <1>1, <1>2, <1>3, <1>5, <1>6 DEF IInv

\* The agent, the flash and the job service keep their parts of the invariant together.
LEMMA Invariance == Spec => []IInv
<1>1. IInv /\ [Next]_vars => IInv'
  <2> SUFFICES ASSUME IInv, [Next]_vars PROVE IInv'
    OBVIOUS
  <2>1. CoreInv /\ EventInv /\ BitmapMatchesFlash /\ JobsInv /\ BanksInv /\ DocsInv /\ VerdictInv
    BY DEF IInv, CoreInv
  <2>2. TypeOK' /\ ControlInv' /\ LoopInv' /\ FileInv' /\ FlashInv'
    BY <2>1, StepKeepsType, StepKeepsControl, StepKeepsLoop, StepKeepsFile, StepKeepsFlash
    DEF CoreInv
  <2>3. EventInv' /\ BitmapMatchesFlash' /\ JobsInv'
    BY <2>1, StepKeepsEvents, StepKeepsBitmap, StepKeepsJobs
  <2>4. BanksInv' /\ DocsInv' /\ VerdictInv'
    BY <2>1, StepKeepsBanks, StepKeepsDocs, StepKeepsVerdict
  <2> QED BY <2>2, <2>3, <2>4 DEF IInv
<1> QED BY <1>1, InitialInv, PTL DEF Spec

-----------------------------------------------------------------------------
(* Theorems.                                                                *)

\* Every variable holds a value of its type: the agent, the flash, the queue, which
\* never overflows, and the services.
THEOREM TypeCorrect == Spec => []TypeOK
BY Invariance, PTL DEF IInv

\* The OTA task never waits with a message in its queue and no event for it: the
\* MQTT callback sets the event after it queues, and the task takes the events before
\* it empties the queue.
THEOREM NoMessageIsStranded == Spec => []NoMessageStranded
<1>1. IInv => NoMessageStranded
  BY DEF IInv, EventInv, NoMessageStranded
<1> QED BY <1>1, Invariance, PTL

\* While a file is received, a block is missing in the bitmap exactly when the flash has
\* nothing where it goes, whatever is delivered twice, late or for another file, and
\* whatever fails.
THEOREM BitmapIsTrue == Spec => []BitmapMatchesFlash
BY Invariance, PTL DEF IInv

\* A job is reported ready for self test only with its own whole image in a bank: the
\* report for the agent's own self test is of a job that was in self test before.
THEOREM ReportedImageIsAuthentic == Spec => NewImageIsAuthentic
<1>1. IInv /\ [Next]_vars =>
         [\A j \in Jobs : jobs'[j].status = "SelfTest" /\ jobs[j].status # "SelfTest" =>
            \E k \in Banks : Holds(flash'[k], j) /\ flash'[k].flag # "NoImage"]_vars
  <2> SUFFICES ASSUME IInv, [Next]_vars,
                      NEW j \in Jobs, jobs'[j].status = "SelfTest", jobs[j].status # "SelfTest"
               PROVE  \E k \in Banks : Holds(flash'[k], j) /\ flash'[k].flag # "NoImage"
    OBVIOUS
  <2>0. CoreInv /\ TypeOK /\ FileInv /\ VerdictInv
    BY DEF IInv, CoreInv
  <2>1. /\ j = activeJob /\ ~Done(j)
        /\ IngestCompletes \/ (ReportImageState /\ setting = "Testing")
    BY <2>0, StatusChanges DEF JobStatus
  <2>2. ~(ReportImageState /\ setting = "Testing")
    BY <2>0, <2>1, StatusKinds DEF VerdictInv, Tested, ReportImageState, Tests
  <2> QED BY <2>0, <2>1, <2>2 DEF IngestCompletes, FileInv, Banks
<1> QED BY <1>1, Invariance, PTL DEF Spec, NewImageIsAuthentic

\* A job is reported as succeeded only when its image runs and is marked Valid: the
\* documents, the versions and the banks agree on which image the verdict is about.
THEOREM SuccessIsCommitted == Spec => SucceededMeansCommitted
<1>1. IInv /\ [Next]_vars =>
         [\A j \in Jobs : jobs'[j].status = "Succeeded" /\ jobs[j].status # "Succeeded" =>
            Holds(flash["lower"], j) /\ flash["lower"].flag = "Valid"]_vars
  <2> SUFFICES ASSUME IInv, [Next]_vars,
                      NEW j \in Jobs, jobs'[j].status = "Succeeded", jobs[j].status # "Succeeded"
               PROVE  Holds(flash["lower"], j) /\ flash["lower"].flag = "Valid"
    OBVIOUS
  <2>0. CoreInv /\ TypeOK /\ VerdictInv
    BY DEF IInv, CoreInv
  <2>1. j = activeJob /\ ~Done(j) /\ pc = "report" /\ setting = "Accepted"
    BY <2>0, StatusChanges DEF JobStatus, ReportImageState
  <2>2. Tested /\ flash["lower"].flag = "Valid"
    BY <2>0, <2>1 DEF VerdictInv
  <2> QED BY <2>0, <2>1, <2>2, StatusKinds DEF Tested
<1> QED BY <1>1, Invariance, PTL DEF Spec, SucceededMeansCommitted

\* A reset of an image on probation runs the image of the other bank, or none: the
\* bootloader takes only an image that is new or committed.
THEOREM ProbationHappensOnce == Spec => ProbationIsOnce
<1>1. IInv =>
         [InSelfTest(flash) /\ (\E f \in SUBSET {"write", "erase"} : Restarts(f)) =>
            boot' # "run" \/ flash'["lower"].body = flash["upper"].body]_vars
  <2> SUFFICES ASSUME TypeOK, InSelfTest(flash), NEW f, Restarts(f), boot' = "run"
               PROVE  flash'["lower"].body = flash["upper"].body
    BY DEF IInv
  <2>1. /\ Candidates(flash) # {}
        /\ flash' = prvBOOT_ExecuteImage(Invalidated(flash, f), Chosen(flash), f)
    BY DEF Restarts, prvBOOT_ValidateImages
  <2>2. Chosen(flash) = "upper" /\ prvValidateImage(flash["upper"])
    BY <2>1, ChosenIsCandidate DEF Banks, InSelfTest, prvValidateImage
  <2>3. Invalidated(flash, f) \in [Banks -> Bank] /\ Invalidated(flash, f)["upper"] = flash["upper"]
    BY <2>2, InvalidatedFlash DEF TypeOK, Banks
  <2> DEFINE fl == Invalidated(flash, f)
             run == IF fl["upper"].flag = "New" /\ "write" \notin f
                    THEN [fl["upper"] EXCEPT !.flag = "CommitPending"] ELSE fl["upper"]
  <2>4. flash'["lower"] = run
    BY <2>1, <2>2 DEF prvBOOT_ExecuteImage
  <2>5. run.body = fl["upper"].body
    <3>1. fl["upper"] \in Bank
      BY <2>3 DEF Banks
    <3> QED BY <3>1 DEF Bank
  <2> QED BY <2>3, <2>4, <2>5
<1> QED BY <1>1, Invariance, PTL DEF ProbationIsOnce
=============================================================================
