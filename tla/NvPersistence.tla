--------------------------- MODULE NvPersistence ----------------------------
(***************************************************************************)
(* How the TPM's persistent state gets to the SD card and back: ftpm_init, *)
(* manufacture and _TPM_Init at power on, the NV image in RAM and the file *)
(* NVChip it is encrypted into (NVMem.c), and ExecuteCommand, which        *)
(* commits the image at the end of a command.  Power may fail between any  *)
(* two sector writes, and the card may refuse to mount, read or write.     *)
(*                                                                         *)
(* The image is reduced to three blocks, in the order of the NV layout:    *)
(* gp.orderlyState, another persistent value (the endorsement seed, data), *)
(* and the state saved by Shutdown(STATE) (gc.ehEnable).                   *)
(***************************************************************************)
EXTENDS Integers

CONSTANTS MaxSeed,    \* bound: number of seeds told apart
          Faults,     \* what may fail besides the power
          FirstSizes  \* sizes NVChip may have before the first power on

ASSUME FaultsAssumption ==
    /\ MaxSeed \in Nat
    /\ Faults \subseteq {"mount", "read", "write", "entropy", "crypt"}
    /\ FirstSizes \subseteq {"absent", "short", "exact", "long"}

\* TPM_SU values of gp.orderlyState
SU_CLEAR == 0
SU_STATE == 1
SU_NONE  == 65535

Blocks  == 1 .. 3
Erased  == -1      \* bytes 0xff
Garbled == -2      \* a block decrypted with the wrong predecessor
Seeds   == 0 .. MaxSeed

VARIABLES
    \* the card: directory size of NVChip and its ciphertext
    fsize, cipher,
    \* NVMem.c
    mounted, s_NvFile, openSize, s_NV, s_NV_ENC, s_NvIsAvailable, s_NeedsManufacture,
    \* TPM globals
    gp, gc, g_initialized, g_inFailureMode,
    \* where ftpm_init and ExecuteCommand are, and what they will answer
    pc, block, after, result, response,
    \* history: last image committed in full; a commit was cut short since
    \* the last manufacture
    promised, suspect

card   == <<fsize, cipher>>
plat   == <<mounted, s_NvFile, openSize, s_NV, s_NV_ENC, s_NvIsAvailable, s_NeedsManufacture>>
tpm    == <<gp, gc, g_initialized, g_inFailureMode>>
ctl    == <<pc, block, after, result, response>>
hist   == <<promised, suspect>>
vars   == <<card, plat, tpm, ctl, hist>>

-----------------------------------------------------------------------------
(* AES-CBC with a fixed key and IV: a ciphertext block determines the        *)
(* plaintext of all blocks up to it, and decrypts only after its neighbour.  *)

Encrypt(image) == [i \in Blocks |-> [j \in 1 .. i |-> image[j]]]

Decrypt(c) ==
    [i \in Blocks |->
        IF i = 1 \/ c[i - 1] = [j \in 1 .. (i - 1) |-> c[i][j]]
        THEN c[i][i] ELSE Garbled]

Image(orderly, seed, state) ==
    [i \in Blocks |-> IF i = 1 THEN orderly ELSE IF i = 2 THEN seed ELSE state]

\* _plat__NvMemoryClear: orderlyState 0xffff is SU_NONE_VALUE.
ErasedImage == Image(SU_NONE, Erased, Erased)
ZeroImage   == Image(SU_CLEAR, 0, 0)

\* RAM and file contents that no commit has written.
NoCipher == [i \in Blocks |-> [j \in 1 .. i |-> Garbled]]

-----------------------------------------------------------------------------
(* Platform NV *)

\* Control moves on to the first block of NvFileCommit, then to next.
StartCommit(next) ==
    /\ pc' = "commit"
    /\ block' = 1
    /\ after' = next

\* _plat__NVEnable, called by ftpm_init (next = "manufacture") and again by
\* _TPM_Init (next = "init").
NVEnable(next) ==
    /\ s_NvIsAvailable' = TRUE
    /\ \/ /\ mounted /\ fsize = "exact"
          /\ s_NvFile' = TRUE /\ openSize' = fsize
          /\ s_NV_ENC' = cipher /\ s_NV' = Decrypt(cipher)
          /\ s_NeedsManufacture' = FALSE
          /\ pc' = next /\ UNCHANGED <<fsize, block, after>>
       \/ /\ mounted /\ fsize = "exact" /\ "read" \in Faults
          /\ s_NvFile' = TRUE /\ openSize' = fsize
          /\ \E n \in 0 .. 2 :      \* blocks read before the error
                s_NV_ENC' = [i \in Blocks |-> IF i <= n THEN cipher[i] ELSE s_NV_ENC[i]]
          /\ s_NV' = Decrypt(s_NV_ENC')
          /\ s_NeedsManufacture' = TRUE
          /\ pc' = next /\ UNCHANGED <<fsize, block, after>>
       \/ /\ mounted /\ fsize # "exact"
          /\ s_NvFile' = TRUE
          /\ fsize' = IF fsize = "absent" THEN "short" ELSE fsize
          /\ openSize' = fsize'
          /\ s_NV' = ErasedImage /\ s_NV_ENC' = Encrypt(ErasedImage)
          /\ s_NeedsManufacture' = TRUE
          /\ StartCommit(next)
       \/ /\ ~mounted
          /\ s_NV' = ErasedImage
          /\ pc' = next
          /\ UNCHANGED <<fsize, s_NvFile, openSize, s_NV_ENC, s_NeedsManufacture, block, after>>
    /\ UNCHANGED <<cipher, mounted, tpm, result, response, hist>>

\* FatFs: a full sector goes to the card at once, the directory entry of a file
\* that grew is written when the file is closed.
Grown == IF openSize = "long" THEN "long" ELSE "exact"

\* Mutant: the caller is not left.
MutReturn == pc' = "commit" /\ UNCHANGED response

\* The rest of ExecuteCommand, or of the boot step, once NvFileCommit returned.
Return ==
    IF after = "answer"
    THEN pc' = "idle" /\ response' = result
    ELSE pc' = after /\ UNCHANGED response

\* Mutant: one block too many.
MutWriteBlock ==
    /\ pc = "commit"
    /\ cipher' = [cipher EXCEPT ![block] = s_NV_ENC[block]]
    /\ block' = block + 1
    /\ IF block <= 3
       THEN UNCHANGED <<openSize, pc, response, hist>>
       ELSE openSize' = Grown /\ promised' = s_NV /\ suspect' = FALSE /\ Return
    /\ UNCHANGED <<fsize, mounted, s_NvFile, s_NV, s_NV_ENC, s_NvIsAvailable,
                   s_NeedsManufacture, tpm, after, result>>

\* NvFileCommit: one block reaches the card.
WriteBlock ==
    /\ pc = "commit"
    /\ cipher' = [cipher EXCEPT ![block] = s_NV_ENC[block]]
    /\ IF block < 3
       THEN block' = block + 1 /\ UNCHANGED <<openSize, pc, response, hist>>
       ELSE /\ openSize' = Grown
            /\ promised' = s_NV
            /\ suspect' = (suspect /\ after # "disable")
            /\ Return
            /\ UNCHANGED block
    /\ UNCHANGED <<fsize, mounted, s_NvFile, s_NV, s_NV_ENC, s_NvIsAvailable,
                   s_NeedsManufacture, tpm, after, result>>

\* Mutant: the failed commit goes unnoticed.
MutWriteFails ==
    /\ pc = "commit"
    /\ "write" \in Faults
    /\ Return
    /\ suspect' = (suspect \/ block > 1 \/ after # "answer")
    /\ UNCHANGED <<card, plat, tpm, block, after, result, promised>>

\* fwrite reports an error.  ftpm_init does not look at the result;
\* ExecuteCommand enters failure mode with the response already built.
WriteFails ==
    /\ pc = "commit"
    /\ "write" \in Faults
    /\ Return
    /\ g_inFailureMode' = (after = "answer" \/ g_inFailureMode)
    /\ suspect' = (suspect \/ block > 1 \/ after # "answer")
    /\ UNCHANGED <<card, plat, gp, gc, g_initialized, block, after, result, promised>>

\* Mutant: the file is left open, so its directory entry is not written.
MutNVDisable ==
    /\ pc = "disable"
    /\ pc' = "enable"
    /\ s_NvFile' = FALSE
    /\ s_NvIsAvailable' = FALSE
    /\ UNCHANGED <<card, mounted, openSize, s_NV, s_NV_ENC, s_NeedsManufacture,
                   tpm, block, after, result, response, hist>>

\* _plat__NVDisable(FALSE) at the end of ftpm_init closes the file.
NVDisable ==
    /\ pc = "disable"
    /\ pc' = "enable"
    /\ fsize' = IF s_NvFile THEN openSize ELSE fsize
    /\ s_NvFile' = FALSE
    /\ s_NvIsAvailable' = FALSE
    /\ UNCHANGED <<cipher, mounted, openSize, s_NV, s_NV_ENC, s_NeedsManufacture,
                   tpm, block, after, result, response, hist>>

\* _plat__GetNvReadyState, sampled by NvCheckState at the start of a command.
NvReady == s_NvIsAvailable /\ s_NvFile

-----------------------------------------------------------------------------
(* Power on *)

PowerOn ==
    /\ pc = "off"
    /\ mounted' \in {TRUE} \cup (IF "mount" \in Faults THEN {FALSE} ELSE {})
    /\ pc' = "boot"
    /\ UNCHANGED <<card, s_NvFile, openSize, s_NV, s_NV_ENC, s_NvIsAvailable,
                   s_NeedsManufacture, tpm, block, after, result, response, hist>>

FirstEnable == pc = "boot" /\ NVEnable("manufacture")

\* TPM_Manufacture(1), if NVEnable asked for it.
TPM_Manufacture ==
    /\ pc = "manufacture"
    /\ IF s_NeedsManufacture
       THEN /\ gp' = [orderly |-> SU_CLEAR, seed |-> 0]
            /\ s_NV' = [s_NV EXCEPT ![1] = SU_CLEAR, ![2] = 0]
            /\ s_NV_ENC' = Encrypt(s_NV')
            /\ StartCommit("disable")
       ELSE /\ pc' = "disable"
            /\ UNCHANGED <<gp, s_NV, s_NV_ENC, block, after>>
    /\ UNCHANGED <<card, mounted, s_NvFile, openSize, s_NvIsAvailable, s_NeedsManufacture,
                   gc, g_initialized, g_inFailureMode, result, response, hist>>

SecondEnable == pc = "enable" /\ NVEnable("init")

\* The rest of _TPM_Init, and _rpc__Signal_NvOn.
TPM_Init ==
    /\ pc = "init"
    /\ gp' = [orderly |-> s_NV[1], seed |-> s_NV[2]]
    /\ g_initialized' = FALSE
    /\ g_inFailureMode' = FALSE
    /\ s_NvIsAvailable' = TRUE
    /\ pc' = "idle"
    /\ UNCHANGED <<card, mounted, s_NvFile, openSize, s_NV, s_NV_ENC, s_NeedsManufacture,
                   gc, block, after, result, response, hist>>

PowerLoss ==
    /\ pc # "off"
    /\ pc' = "off"
    /\ mounted' = FALSE /\ s_NvFile' = FALSE /\ openSize' = "short"
    /\ s_NV' = ZeroImage /\ s_NV_ENC' = NoCipher
    /\ s_NvIsAvailable' = FALSE /\ s_NeedsManufacture' = FALSE
    /\ gp' = [orderly |-> SU_CLEAR, seed |-> 0] /\ gc' = 0
    /\ g_initialized' = FALSE /\ g_inFailureMode' = FALSE
    /\ suspect' = (suspect \/ (pc = "commit" /\ block > 1))
    /\ block' = 1 /\ after' = "answer" /\ result' = "none" /\ response' = "none"
    /\ UNCHANGED <<card, promised>>

-----------------------------------------------------------------------------
(* Commands.  A handler runs without touching the card; ExecuteCommand then   *)
(* drops an orderly state if g_clearOrderly, builds the response and commits  *)
(* the image if g_updateNV and the command did not fail inside.               *)

Orderly(clearOrderly) == IF clearOrderly THEN SU_NONE ELSE gp.orderly

\* Mutant: the encrypted copy is the one of the previous commit.
MutCleanupStale(rc, image, written) ==
    /\ result' = rc
    /\ s_NV' = image
    /\ IF written /\ ~g_inFailureMode'
       THEN StartCommit("answer") /\ UNCHANGED <<s_NV_ENC, response>>
       ELSE pc' = "idle" /\ response' = rc /\ UNCHANGED <<s_NV_ENC, block, after>>
    /\ UNCHANGED <<card, mounted, s_NvFile, openSize, s_NvIsAvailable, s_NeedsManufacture, hist>>

Cleanup(rc, image, written) ==
    /\ result' = rc
    /\ s_NV' = image
    /\ IF written /\ ~g_inFailureMode'
       THEN s_NV_ENC' = Encrypt(image) /\ StartCommit("answer") /\ UNCHANGED response
       ELSE pc' = "idle" /\ response' = rc /\ UNCHANGED <<s_NV_ENC, block, after>>
    /\ UNCHANGED <<card, mounted, s_NvFile, openSize, s_NvIsAvailable, s_NeedsManufacture, hist>>

Refuse(rc) == Cleanup(rc, s_NV, FALSE) /\ UNCHANGED tpm

Accepts(startup) == pc = "idle" /\ ~g_inFailureMode /\ g_initialized # startup

\* TpmFailureMode.
FailureMode == pc = "idle" /\ g_inFailureMode /\ Refuse("FAILURE")

\* Startup when started, or any other command when not.
OutOfOrder == pc = "idle" /\ ~g_inFailureMode /\ Refuse("INITIALIZE")

\* gp.totalResetCount lies in the block of the seed; at a reset an erased one
\* wraps to zero.
CounterWraps == gp.seed = Erased /\ gp.orderly # SU_STATE

TPM2_Startup(type) ==
    /\ Accepts(TRUE)
    /\ \/ ~NvReady /\ Refuse("NV_UNAVAILABLE")
       \/ NvReady /\ type = SU_STATE /\ gp.orderly # SU_STATE /\ Refuse("VALUE")
       \/ /\ NvReady /\ (type = SU_STATE => gp.orderly = SU_STATE)
          /\ \/ /\ ~CounterWraps
                /\ gp' = [gp EXCEPT !.orderly = SU_NONE]
                /\ gc' = IF type = SU_STATE THEN s_NV[3] ELSE 1
                /\ g_initialized' = TRUE
                /\ UNCHANGED g_inFailureMode
                /\ Cleanup("SUCCESS", [s_NV EXCEPT ![1] = SU_NONE], TRUE)
             \/ /\ CounterWraps             \* FAIL, after TPMRegisterStartup
                /\ gc' = 1
                /\ g_initialized' = TRUE /\ g_inFailureMode' = TRUE
                /\ UNCHANGED gp
                /\ Cleanup("FAILURE", s_NV, FALSE)
             \/ /\ "crypt" \in Faults       \* CryptStartup returned FALSE
                /\ gp' = [gp EXCEPT !.orderly = SU_NONE]
                /\ gc' = IF type = SU_STATE THEN s_NV[3] ELSE gc
                /\ UNCHANGED <<g_initialized, g_inFailureMode>>
                /\ Cleanup("FAILURE", s_NV, FALSE)

TPM2_Shutdown(type) ==
    /\ Accepts(FALSE)
    /\ NvReady
    /\ gp' = [gp EXCEPT !.orderly = type]
    /\ UNCHANGED <<gc, g_initialized, g_inFailureMode>>
    /\ Cleanup("SUCCESS",
               [s_NV EXCEPT ![1] = type, ![3] = IF type = SU_STATE THEN gc ELSE @], TRUE)

\* A persistent value and a state clear value change together; the random
\* generator may enter failure mode on the way.
TPM2_ChangeEPS(seed) ==
    /\ Accepts(FALSE)
    /\ NvReady
    /\ gp' = [orderly |-> Orderly(TRUE), seed |-> seed]
    /\ gc' = 1
    /\ g_inFailureMode' \in {FALSE} \cup (IF "entropy" \in Faults THEN {TRUE} ELSE {})
    /\ UNCHANGED g_initialized
    /\ Cleanup("SUCCESS", [s_NV EXCEPT ![1] = gp'.orderly, ![2] = seed], TRUE)

\* Mutant: the saved state stays valid although the state changed.
MutHierarchyControl(enable) ==
    /\ Accepts(FALSE)
    /\ gc' = enable
    /\ UNCHANGED <<gp, g_initialized, g_inFailureMode>>
    /\ Cleanup("SUCCESS", s_NV, FALSE)

\* TPM2_HierarchyControl for the endorsement hierarchy: only state clear data.
TPM2_HierarchyControl(enable) ==
    /\ Accepts(FALSE)
    /\ gc' = enable
    /\ gp' = [gp EXCEPT !.orderly = Orderly(enable # gc)]
    /\ UNCHANGED <<g_initialized, g_inFailureMode>>
    /\ Cleanup("SUCCESS", [s_NV EXCEPT ![1] = gp'.orderly], gp' # gp)

\* A self test that fails: the handler still returns TPM_RC_SUCCESS.
TPM2_SelfTest ==
    /\ Accepts(FALSE)
    /\ "entropy" \in Faults
    /\ g_inFailureMode' = TRUE
    /\ UNCHANGED <<gp, gc, g_initialized>>
    /\ Cleanup("SUCCESS", s_NV, FALSE)

-----------------------------------------------------------------------------
Init ==
    /\ fsize \in FirstSizes
    /\ cipher = IF fsize = "exact" THEN Encrypt(ZeroImage) ELSE NoCipher
    /\ mounted = FALSE /\ s_NvFile = FALSE /\ openSize = "short"
    /\ s_NV = ZeroImage /\ s_NV_ENC = NoCipher
    /\ s_NvIsAvailable = FALSE /\ s_NeedsManufacture = FALSE
    /\ gp = [orderly |-> SU_CLEAR, seed |-> 0] /\ gc = 0
    /\ g_initialized = FALSE /\ g_inFailureMode = FALSE
    /\ pc = "off" /\ block = 1 /\ after = "answer" /\ result = "none" /\ response = "none"
    /\ promised = ZeroImage /\ suspect = FALSE

Boot    == FirstEnable \/ TPM_Manufacture \/ NVDisable \/ SecondEnable \/ TPM_Init
Commit  == WriteBlock \/ WriteFails
Command ==
    \/ FailureMode
    \/ OutOfOrder
    \/ \E type \in {SU_CLEAR, SU_STATE} : TPM2_Startup(type) \/ TPM2_Shutdown(type)
    \/ \E seed \in Seeds : TPM2_ChangeEPS(seed)
    \/ \E enable \in {0, 1} : TPM2_HierarchyControl(enable)
    \/ TPM2_SelfTest

Next == PowerOn \/ Boot \/ Commit \/ Command \/ PowerLoss

\* A hart in M-mode runs the boot code and the commit to their end.
Spec == Init /\ [][Next]_vars /\ WF_vars(Boot) /\ WF_vars(Commit)
-----------------------------------------------------------------------------
(* Properties *)

IsCipher(c) ==
    c = [i \in Blocks |-> c[i]] /\ \A i \in Blocks : c[i] \in [1 .. i -> Int]

TypeOK ==
    /\ fsize \in {"absent", "short", "exact", "long"}
    /\ openSize \in {"short", "exact", "long"}
    /\ IsCipher(cipher) /\ IsCipher(s_NV_ENC)
    /\ s_NV \in [Blocks -> Int] /\ promised \in [Blocks -> Int]
    /\ gp \in [orderly : Int, seed : Int] /\ gc \in Int
    /\ mounted \in BOOLEAN /\ s_NvFile \in BOOLEAN /\ suspect \in BOOLEAN
    /\ s_NvIsAvailable \in BOOLEAN /\ s_NeedsManufacture \in BOOLEAN
    /\ g_initialized \in BOOLEAN /\ g_inFailureMode \in BOOLEAN
    /\ pc \in {"off", "boot", "manufacture", "disable", "enable", "init", "idle", "commit"}
    /\ block \in Blocks
    /\ after \in {"manufacture", "disable", "init", "answer"}

\* Once the TPM has answered a command, what it keeps in gp and in the image is
\* what the card will give back: losing power now loses nothing.
Durable ==
    pc = "idle" /\ s_NvFile /\ ~g_inFailureMode /\ ~suspect =>
        /\ fsize = "exact"
        /\ Decrypt(cipher) = s_NV
        /\ gp.seed = s_NV[2]
        /\ g_initialized => gp.orderly = s_NV[1]

\* Outside a commit the card holds the last image committed in full: commands
\* that failed, and the time in failure mode, leave no trace on it.
CardKeepsPromise ==
    fsize = "exact" /\ ~suspect /\ pc # "commit" =>
        Decrypt(cipher) = promised

\* A saved state on the card that Startup(STATE) would accept is the current
\* state: every command that changes the state also drops the orderly state.
SavedStateIsCurrent ==
    /\ pc = "idle" /\ g_initialized /\ ~g_inFailureMode /\ ~suspect
    /\ Decrypt(cipher)[1] = SU_STATE
    => Decrypt(cipher)[3] = gc

\* The card changes only by a commit, and never in failure mode.
FailureFreezesCard ==
    [][cipher' # cipher => pc = "commit" /\ ~g_inFailureMode]_vars

\* If power stays on, the boot ends and every command is answered.
Answers == pc \notin {"idle", "off"} ~> pc \in {"idle", "off"}

\* A TPM2_Startup is taken only on an image that was manufactured, wherever power
\* fails during the first boots: ftpm_init means to keep manufacturing failures
\* "from being ignored the next time the code is run".  With write errors it does
\* not hold, since TPM_Manufacture ignores the result of its commit.
StartsManufactured == g_initialized => gp.seed # Erased

\* What is left of it with every fault: unless a commit was cut short since the
\* last manufacture, a TPM2_Startup is taken only on a manufactured image.
StartsFromWhole == g_initialized /\ ~suspect => gp.seed # Erased
=============================================================================
