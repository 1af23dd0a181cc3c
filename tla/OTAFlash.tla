------------------------------- MODULE OTAFlash -------------------------------
(***************************************************************************)
(* The two program flash banks of the device, the bootloader that chooses  *)
(* the image to run, and the platform layer (PAL) through which the OTA    *)
(* agent marks images.  The functions of the code that read and write the  *)
(* flash are operators from the banks to the banks.                        *)
(*                                                                         *)
(* Sources: demos/common/ota/bootloader/, and                              *)
(* lib/ota/portable/microchip/curiosity_pic32mzef/aws_ota_pal.c, the one   *)
(* platform layer of the repository that the bootloader works with (the    *)
(* layer of the kit itself is a stub that returns fixed results).          *)
(***************************************************************************)
EXTENDS Naturals, FiniteSets

CONSTANTS
    Images,               \* the firmware images that exist
    Factory,              \* the image the device is shipped with
    Version,              \* the version of an image; its sequence number too
    Blocks,               \* the places a bank has for the blocks of an image
    BlocksOf,             \* the blocks an image has
    NoData,               \* what an erased block holds
    ENABLE_DEFAULT_START, \* bootconfigENABLE_DEFAULT_START
    ENABLE_ERASE_INVALID  \* bootconfigENABLE_ERASE_INVALID

ASSUME ImagesAssumption ==
    /\ Factory \in Images
    /\ Version \in [Images -> Nat \ {0}]
    /\ \A i, j \in Images : Version[i] = Version[j] => i = j
\* The blocks of a file are numbered from its beginning: all files have the first.
ASSUME DataAssumption ==
    /\ NoData \notin Images /\ BlocksOf \in [Images -> SUBSET Blocks]
    /\ \E first \in Blocks : \A i \in Images : first \in BlocksOf[i]
ASSUME ConfigAssumption ==
    ENABLE_DEFAULT_START \in BOOLEAN /\ ENABLE_ERASE_INVALID \in BOOLEAN

\* The image that executes is always in the lower bank: the banks are swapped
\* when an image is launched from the upper one.
Banks == {"lower", "upper"}

\* The magic code and the flags are the header of a bank; "NoImage" is a header
\* that has no magic code.
Flags == {"NoImage", "New", "CommitPending", "Valid", "Invalid"}

Bank == [flag : Flags, body : [Blocks -> Images \cup {NoData}]]

NoBlocks   == [b \in Blocks |-> NoData]
ErasedBank == [flag |-> "NoImage", body |-> NoBlocks]

FactoryFlash ==
    [lower |-> [flag |-> "Valid",
                body |-> [b \in Blocks |-> IF b \in BlocksOf[Factory]
                                            THEN Factory ELSE NoData]],
     upper |-> ErasedBank]

Holds(bank, i) == \A b \in BlocksOf[i] : bank.body[b] = i

\* The signature of a bank verifies when all its blocks are of one signed image.
Authentic(bank) == \E i \in Images : Holds(bank, i)
ImageOf(bank)   == CHOOSE i \in Images : Holds(bank, i)
Running(flash)  == ImageOf(flash["lower"])

-----------------------------------------------------------------------------
(* The bootloader.                                                         *)

BugPrvValidateImage(bank) ==   \* mutant: an image still on probation is taken
    bank.flag \in {"New", "CommitPending", "Valid"} /\ Authentic(bank)

prvValidateImage(bank) ==
    bank.flag \in {"New", "Valid"} /\ Authentic(bank)

prvInvalidateImage(bank) ==
    [flag |-> "NoImage",
     body |-> IF ENABLE_ERASE_INVALID THEN NoBlocks ELSE bank.body]

\* The flash after the pass over the partition table: what does not validate
\* has lost its header, unless it could not be erased.
Invalidated(flash, failing) ==
    [k \in Banks |-> IF prvValidateImage(flash[k]) \/ "erase" \in failing
                     THEN flash[k] ELSE prvInvalidateImage(flash[k])]

Candidates(flash) == {k \in Banks : prvValidateImage(flash[k])}

\* The newest of the images that validate; the first bank's if they are equal.
Chosen(flash) ==
    LET newer == /\ "lower" \in Candidates(flash)
                 /\ Version[ImageOf(flash["upper"])] <= Version[ImageOf(flash["lower"])]
    IN  IF "upper" \in Candidates(flash) /\ ~newer THEN "upper" ELSE "lower"

\* The first launch of an image puts it on probation.  A failed write of the
\* flags is forgotten when the watchdog then starts: the image runs as it is.
prvBOOT_ExecuteImage(flash, k, failing) ==
    LET run == IF flash[k].flag = "New" /\ "write" \notin failing
               THEN [flash[k] EXCEPT !.flag = "CommitPending"] ELSE flash[k]
        other == CHOOSE o \in Banks : o # k
    IN  [lower |-> run, upper |-> flash[other]]

\* What a reset leads to: the state of the flash, and whether an image runs, the
\* default start jumps to whatever the lower bank holds, or nothing does.
prvBOOT_ValidateImages(flash, failing) ==
    IF Candidates(flash) # {}
    THEN [boot |-> "run",
          flash |-> prvBOOT_ExecuteImage(Invalidated(flash, failing), Chosen(flash), failing)]
    ELSE [boot |-> IF ENABLE_DEFAULT_START THEN "default" ELSE "error",
          flash |-> Invalidated(flash, failing)]

-----------------------------------------------------------------------------
(* The platform layer.  Each function returns whether it reports success and *)
(* the flash it leaves; "failing" are the flash operations that fail in it.  *)

InSelfTest(flash) == flash["lower"].flag = "CommitPending"

AWS_FlashEraseUpdateBank(flash, failing) ==
    IF "erase" \in failing THEN flash ELSE [flash EXCEPT !["upper"] = ErasedBank]

BugPrvPAL_SetPlatformImageState(flash, eState, failing) ==   \* mutant: a failed commit is not reported
    IF InSelfTest(flash) /\ eState = "Accepted"
    THEN [ok |-> TRUE,
          flash |-> IF "write" \in failing THEN flash
                    ELSE AWS_FlashEraseUpdateBank([flash EXCEPT !["lower"].flag = "Valid"], failing)]
    ELSE [ok |-> TRUE, flash |-> flash]

\* In self test the verdict is the mark of the running image; a commit is a
\* success even when the old image cannot be erased.  Otherwise a transfer is
\* given up and the upper bank erased.
prvPAL_SetPlatformImageState(flash, eState, failing) ==
    LET written == "write" \notin failing
        Mark(flag) == IF written THEN [flash EXCEPT !["lower"].flag = flag] ELSE flash
    IN  CASE eState = "Testing" -> [ok |-> TRUE, flash |-> flash]
          [] eState = "Accepted" /\ InSelfTest(flash) ->
                 [ok |-> written,
                  flash |-> IF written
                            THEN AWS_FlashEraseUpdateBank(Mark("Valid"), failing) ELSE flash]
          [] eState = "Accepted" /\ ~InSelfTest(flash) -> [ok |-> FALSE, flash |-> flash]
          [] eState \in {"Rejected", "Aborted"} /\ InSelfTest(flash) ->
                 [ok |-> written, flash |-> Mark("Invalid")]
          [] OTHER ->
                 [ok |-> "erase" \notin failing,
                  flash |-> AWS_FlashEraseUpdateBank(flash, failing)]

prvPAL_GetPlatformImageState(flash) ==
    LET flag == IF flash["lower"].flag \in {"NoImage", "CommitPending"}
                THEN flash["lower"].flag ELSE flash["upper"].flag
    IN  CASE flag = "CommitPending" -> "PendingCommit"
          [] flag \in {"Valid", "New"} -> "Valid"
          [] OTHER -> "Invalid"

\* A file is received into the upper bank, which is erased for it.
prvPAL_CreateFileForRx(flash, failing) ==
    [ok |-> "erase" \notin failing, flash |-> AWS_FlashEraseUpdateBank(flash, failing)]

prvPAL_WriteBlock(flash, b, data, failing) ==
    [ok |-> "write" \notin failing,
     flash |-> IF "write" \in failing THEN flash ELSE [flash EXCEPT !["upper"].body[b] = data]]

BugPrvPAL_CloseFile(flash, image, failing) ==   \* mutant: the signature is not checked
    [ok |-> "header" \notin failing,
     flash |-> IF "header" \in failing THEN flash ELSE [flash EXCEPT !["upper"].flag = "New"]]

\* The signature checked is that of the job's own image.  Only when it matches are
\* the header and the trailer written that make the bank an image; one without its
\* trailer verifies no more than an empty one.  A file context that is not valid, or
\* a verification that cannot start or has no certificate, leaves the bank alone.
prvPAL_CloseFile(flash, image, failing) ==
    LET begins  == "verify" \notin failing
        matches == begins /\ Holds(flash["upper"], image)
    IN  CASE ~begins -> [ok |-> FALSE, flash |-> flash]
          [] begins /\ ~matches ->
                 [ok |-> FALSE, flash |-> AWS_FlashEraseUpdateBank(flash, failing)]
          [] matches /\ "header" \in failing -> [ok |-> FALSE, flash |-> flash]
          [] matches /\ failing \cap {"header", "trailer"} = {"trailer"} ->
                 [ok |-> FALSE,
                  flash |-> [flash EXCEPT !["upper"] = [flag |-> "New", body |-> NoBlocks]]]
          [] OTHER -> [ok |-> TRUE, flash |-> [flash EXCEPT !["upper"].flag = "New"]]
===============================================================================
