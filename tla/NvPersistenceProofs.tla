------------------------ MODULE NvPersistenceProofs -------------------------
(***************************************************************************)
(* Durability of the TPM state, proved for every set of faults and every   *)
(* number of seeds, for a file that is not longer than the NV image when   *)
(* the machine is first switched on.                                       *)
(***************************************************************************)
EXTENDS NvPersistence, TLAPS

\* time limits of the provers, in seconds
USE SMTT(30), ZenonT(30)

NotLong == "long" \notin FirstSizes

\* What ftpm_init has established when it reaches a given point.
BootOK ==
    /\ pc \in {"off", "boot", "enable"} => ~s_NvFile
    /\ pc \notin {"off", "boot", "enable"} => (s_NvFile <=> mounted)
    /\ pc = "manufacture" /\ ~s_NeedsManufacture /\ mounted =>
          fsize = "exact" /\ openSize = "exact" /\ s_NV_ENC = cipher
    /\ pc = "manufacture" /\ ~mounted => ~s_NeedsManufacture
    /\ pc \in {"boot", "off"} => ~s_NeedsManufacture
    /\ pc \in {"disable", "enable", "init"} /\ mounted /\ ~suspect =>
          /\ s_NV_ENC = cipher
          /\ cipher = Encrypt(promised)
          /\ pc = "disable" => openSize = "exact"
          /\ pc # "disable" => fsize = "exact"
    /\ pc = "init" /\ mounted /\ ~suspect => s_NV = promised
    /\ pc \notin {"idle", "commit"} => ~g_inFailureMode /\ ~g_initialized

\* A commit in progress: blocks below the current one are new, the others old.
CommitOK ==
    pc = "commit" =>
        /\ s_NvFile /\ mounted /\ ~g_inFailureMode
        /\ s_NV_ENC = Encrypt(s_NV)
        /\ \A i \in Blocks : i < block => cipher[i] = s_NV_ENC[i]
        /\ after = "manufacture" => s_NeedsManufacture
        /\ after = "init" => suspect
        /\ after = "answer" /\ ~suspect => fsize = "exact"
        /\ after # "answer" => ~g_initialized
        /\ ~suspect /\ fsize = "exact" =>
              \A i \in Blocks : i >= block => cipher[i] = Encrypt(promised)[i]

CardOK ==
    /\ fsize # "long" /\ openSize # "long"
    /\ ~suspect /\ fsize = "exact" /\ pc # "commit" => cipher = Encrypt(promised)

\* Between commands, and while a command's image is being written.
CommandOK ==
    /\ pc = "idle" /\ s_NvFile /\ ~g_inFailureMode /\ ~suspect =>
          fsize = "exact" /\ s_NV = promised
    /\ (pc = "idle" \/ (pc = "commit" /\ after = "answer")) /\ ~g_inFailureMode =>
          gp.seed = s_NV[2] /\ (g_initialized => gp.orderly = s_NV[1])
    /\ g_initialized => s_NvFile
    /\ g_initialized /\ ~g_inFailureMode /\ gp.orderly = SU_STATE => s_NV[3] = gc

IInv == TypeOK /\ BootOK /\ CommitOK /\ CardOK /\ CommandOK

\* Where the erased image may be while manufacture can only be interrupted by a
\* loss of power: never in a file whose directory entry gives its full size.
Seeded ==
    /\ fsize = "exact" => cipher[2][2] # Erased
    /\ pc = "disable" /\ mounted => openSize = "exact" /\ cipher[2][2] # Erased
    /\ pc = "enable" /\ mounted => fsize = "exact"
    /\ pc \in {"disable", "enable"} /\ mounted => s_NV_ENC[2][2] # Erased
    /\ pc = "init" /\ mounted => s_NV[2] # Erased
    /\ pc = "commit" => /\ after # "init"
                        /\ after = "manufacture" => fsize # "exact"
                        /\ after # "manufacture" => s_NV[2] # Erased
    /\ pc = "idle" /\ s_NvFile => s_NV[2] # Erased
    /\ g_initialized => gp.seed # Erased

\* The same with write errors: where the erased image may be as long as no commit
\* was cut short since the last manufacture.
Whole ==
    /\ ~suspect /\ fsize = "exact" => cipher[2][2] # Erased
    /\ pc = "disable" /\ mounted /\ ~suspect => cipher[2][2] # Erased
    /\ pc = "init" /\ mounted /\ ~suspect => s_NV[2] # Erased
    /\ pc = "commit" => /\ after = "manufacture" => fsize # "exact" \/ suspect
                        /\ after = "disable" => s_NV[2] # Erased
                        /\ after = "answer" /\ ~suspect => s_NV[2] # Erased
    /\ pc = "idle" /\ s_NvFile /\ ~suspect => s_NV[2] # Erased
    /\ g_initialized /\ ~suspect => gp.seed # Erased

-----------------------------------------------------------------------------
(* The encryption *)

LEMMA EncryptIsCipher ==
    ASSUME NEW f \in [Blocks -> Int]
    PROVE  IsCipher(Encrypt(f))
  BY DEF IsCipher, Encrypt, Blocks

LEMMA DecryptType ==
    ASSUME NEW c, IsCipher(c)
    PROVE  Decrypt(c) \in [Blocks -> Int]
  BY DEF IsCipher, Decrypt, Blocks, Garbled

LEMMA DecryptEncrypt ==
    ASSUME NEW f \in [Blocks -> Int]
    PROVE  Decrypt(Encrypt(f)) = f
<1> DEFINE c == Encrypt(f)
<1>1. \A i \in Blocks : c[i] = [j \in 1 .. i |-> f[j]]
  BY DEF Encrypt
<1>2. ASSUME NEW i \in Blocks, i # 1
      PROVE  c[i - 1] = [j \in 1 .. (i - 1) |-> c[i][j]]
  <2>1. i - 1 \in Blocks /\ i \in Int
    BY <1>2 DEF Blocks
  <2>2. c[i - 1] = [j \in 1 .. (i - 1) |-> f[j]]
    BY <1>1, <2>1
  <2>3. ASSUME NEW j \in 1 .. (i - 1)
        PROVE  c[i][j] = f[j]
    <3>1. j \in 1 .. i
      BY <2>1
    <3>2. c[i] = [k \in 1 .. i |-> f[k]]
      BY <1>1
    <3> QED
      BY <3>1, <3>2
  <2> QED
    BY <2>2, <2>3
<1>3. \A i \in Blocks : c[i][i] = f[i]
  BY <1>1 DEF Blocks
<1>4. \A i \in Blocks : Decrypt(c)[i] = f[i]
  BY <1>2, <1>3 DEF Decrypt
<1> QED
  BY <1>4 DEF Decrypt

LEMMA CipherEqual ==
    ASSUME NEW c, NEW d, IsCipher(c), IsCipher(d), \A i \in Blocks : c[i] = d[i]
    PROVE  c = d
  BY DEF IsCipher

LEMMA ImageType ==
    ASSUME NEW a \in Int, NEW b \in Int, NEW c \in Int
    PROVE  Image(a, b, c) \in [Blocks -> Int]
  BY DEF Image

LEMMA Images ==
    /\ ErasedImage \in [Blocks -> Int]
    /\ ZeroImage \in [Blocks -> Int]
    /\ IsCipher(NoCipher)
  BY DEF ErasedImage, ZeroImage, Image, Erased, SU_NONE, SU_CLEAR, NoCipher, IsCipher,
         Garbled, Blocks

-----------------------------------------------------------------------------
(* The invariant is inductive *)

LEMMA InitIInv ==
    ASSUME NotLong, Init
    PROVE  IInv
<1>1. IsCipher(cipher)
  BY Images, EncryptIsCipher DEF Init
<1>2. TypeOK
  <2>1. fsize \in {"absent", "short", "exact", "long"}
    BY FaultsAssumption DEF Init
  <2>2. gp \in [orderly : Int, seed : Int] /\ gc \in Int /\ block \in Blocks
    BY DEF Init, SU_CLEAR, Blocks
  <2>3. s_NV \in [Blocks -> Int] /\ promised \in [Blocks -> Int] /\ IsCipher(s_NV_ENC)
    BY Images DEF Init
  <2> QED
    BY <1>1, <2>1, <2>2, <2>3, ZenonT(30) DEF Init, TypeOK
<1>3. fsize # "long"
  BY DEF Init, NotLong
<1> QED
  BY <1>2, <1>3 DEF Init, IInv, BootOK, CommitOK, CardOK, CommandOK

LEMMA PowerOnIInv ==
    ASSUME IInv, PowerOn
    PROVE  IInv'
<1> USE DEF PowerOn, card, tpm, hist
<1>1. TypeOK'
  <2>1. mounted' \in BOOLEAN
    BY Zenon
  <2> QED
    BY <2>1 DEF IInv, TypeOK, IsCipher
<1>2. BootOK'
  BY DEF IInv, BootOK
<1>3. CommitOK'
  BY DEF CommitOK
<1>4. CardOK'
  BY DEF IInv, CardOK
<1>5. CommandOK'
  BY DEF IInv, CommandOK, BootOK
<1> QED
  BY <1>1, <1>2, <1>3, <1>4, <1>5 DEF IInv

LEMMA PowerLossIInv ==
    ASSUME IInv, PowerLoss
    PROVE  IInv'
<1> USE DEF PowerLoss, card
<1>1. TypeOK'
  <2>1. gp' \in [orderly : Int, seed : Int] /\ gc' \in Int /\ block' \in Blocks
    BY DEF SU_CLEAR, Blocks
  <2>2. s_NV' \in [Blocks -> Int] /\ IsCipher(s_NV_ENC')
    BY Images
  <2>3. IsCipher(cipher)' /\ promised' \in [Blocks -> Int] /\ suspect' \in BOOLEAN
    BY DEF IInv, TypeOK, IsCipher
  <2> QED
    BY <2>1, <2>2, <2>3, ZenonT(30) DEF IInv, TypeOK, IsCipher
<1>2. BootOK'
  BY DEF IInv, BootOK
<1>3. CommitOK'
  BY DEF CommitOK
<1>4. CardOK'
  <2>1. ASSUME ~suspect', fsize = "exact", pc = "commit"
        PROVE  cipher = Encrypt(promised)
    <3>1. ~suspect /\ ~(block > 1)
      BY <2>1, Zenon
    <3>2. \A i \in Blocks : cipher[i] = Encrypt(promised)[i]
      <4>1. block = 1
        BY <3>1 DEF IInv, TypeOK, Blocks
      <4>2. \A i \in Blocks : i >= block
        BY <4>1 DEF Blocks
      <4> QED
        BY <2>1, <3>1, <4>2 DEF IInv, CommitOK
    <3> QED
      BY <3>2, CipherEqual, EncryptIsCipher DEF IInv, TypeOK
  <2> QED
    BY <2>1, ZenonT(30) DEF IInv, CardOK
<1>5. CommandOK'
  BY DEF CommandOK
<1> QED
  BY <1>1, <1>2, <1>3, <1>4, <1>5 DEF IInv

\* A command that only answers.
LEMMA RefuseIInv ==
    ASSUME IInv, pc = "idle", NEW rc, Refuse(rc)
    PROVE  IInv'
<1> USE DEF Refuse, Cleanup, card, tpm, hist
<1>1. TypeOK'
  BY DEF IInv, TypeOK, IsCipher
<1>2. BootOK'
  BY DEF IInv, BootOK
<1>3. CommitOK'
  BY DEF CommitOK
<1>4. CardOK'
  BY DEF IInv, CardOK
<1>5. CommandOK'
  BY DEF IInv, CommandOK
<1> QED
  BY <1>1, <1>2, <1>3, <1>4, <1>5 DEF IInv

\* The end of ExecuteCommand, for an image that agrees with gp and gc.
LEMMA CleanupIInv ==
    ASSUME IInv, pc = "idle", ~g_inFailureMode,
           NEW rc, NEW image \in [Blocks -> Int], NEW written \in BOOLEAN,
           Cleanup(rc, image, written),
           gp' \in [orderly : Int, seed : Int], gc' \in Int,
           g_initialized' \in BOOLEAN, g_inFailureMode' \in BOOLEAN,
           ~written => image = s_NV,
           written \/ g_initialized' => s_NvFile,
           ~g_inFailureMode' =>
               /\ gp'.seed = image[2]
               /\ g_initialized' => gp'.orderly = image[1]
               /\ g_initialized' /\ gp'.orderly = SU_STATE => image[3] = gc'
    PROVE  IInv'
<1> USE DEF Cleanup, card, hist, StartCommit
<1>0. pc' = "commit" <=> (written /\ ~g_inFailureMode')
  OBVIOUS
<1>1. TypeOK'
  <2>1. IsCipher(s_NV_ENC')
    BY EncryptIsCipher DEF IInv, TypeOK
  <2>2. block' \in Blocks /\ after' \in {"manufacture", "disable", "init", "answer"}
    BY DEF IInv, TypeOK, Blocks
  <2> QED
    BY <2>1, <2>2 DEF IInv, TypeOK, IsCipher
<1>2. BootOK'
  BY DEF IInv, BootOK
<1>3. CommitOK'
  <2> SUFFICES ASSUME pc' = "commit" PROVE CommitOK'
    BY DEF CommitOK
  <2>1. s_NvFile' /\ mounted' /\ ~g_inFailureMode' /\ after' = "answer" /\ block' = 1
    BY <1>0 DEF IInv, BootOK
  <2>2. ~suspect' => fsize' = "exact" /\ cipher' = Encrypt(promised')
    BY <1>0 DEF IInv, CommandOK, CardOK
  <2> QED
    BY <1>0, <2>1, <2>2 DEF CommitOK, Blocks
<1>4. CardOK'
  BY DEF IInv, CardOK
<1>5. CommandOK'
  BY <1>0 DEF IInv, CommandOK
<1> QED
  BY <1>1, <1>2, <1>3, <1>4, <1>5 DEF IInv
-----------------------------------------------------------------------------
(* The boot *)

LEMMA NVEnableIInv ==
    ASSUME IInv, NEW next, NVEnable(next),
           \/ pc = "boot" /\ next = "manufacture"
           \/ pc = "enable" /\ next = "init"
    PROVE  IInv'
<1> USE DEF NVEnable, tpm, hist, StartCommit
<1>1. TypeOK'
  <2>1. IsCipher(s_NV_ENC')
    <3>1. ASSUME NEW n \in 0 .. 2,
                 s_NV_ENC' = [i \in Blocks |-> IF i <= n THEN cipher[i] ELSE s_NV_ENC[i]]
          PROVE  IsCipher(s_NV_ENC')
      BY <3>1 DEF IInv, TypeOK, IsCipher
    <3>2. IsCipher(cipher) /\ IsCipher(s_NV_ENC) /\ IsCipher(Encrypt(ErasedImage))
      BY EncryptIsCipher, Images DEF IInv, TypeOK
    <3> QED
      BY <3>1, <3>2
  <2>2. s_NV' \in [Blocks -> Int]
    BY <2>1, DecryptType, Images DEF IInv, TypeOK
  <2>3. IsCipher(cipher)'
    BY DEF IInv, TypeOK, IsCipher
  <2>4. block' \in Blocks
    BY DEF IInv, TypeOK, Blocks
  <2>5. fsize' \in {"absent", "short", "exact", "long"} /\ openSize' \in {"short", "exact", "long"}
    BY DEF IInv, TypeOK
  <2>6. /\ pc' \in {"manufacture", "init", "commit"}
        /\ after' \in {"manufacture", "disable", "init", "answer"}
    BY DEF IInv, TypeOK
  <2>7. s_NvFile' \in BOOLEAN /\ s_NvIsAvailable' \in BOOLEAN /\ s_NeedsManufacture' \in BOOLEAN
    BY Zenon DEF IInv, TypeOK
  <2> QED
    BY <2>1, <2>2, <2>3, <2>4, <2>5, <2>6, <2>7 DEF IInv, TypeOK, IsCipher
<1>2. ~g_inFailureMode /\ ~g_initialized /\ ~s_NvFile
  BY DEF IInv, BootOK
<1>3. CommitOK'
  <2> SUFFICES ASSUME pc' = "commit" PROVE CommitOK'
    BY DEF CommitOK
  <2>1. /\ mounted /\ fsize # "exact" /\ s_NvFile' /\ s_NeedsManufacture'
        /\ s_NV' = ErasedImage /\ s_NV_ENC' = Encrypt(ErasedImage)
        /\ fsize' # "exact" /\ block' = 1 /\ after' = next
    OBVIOUS
  <2>2. next = "init" => suspect
    BY <2>1 DEF IInv, BootOK
  <2> QED
    BY <1>2, <2>1, <2>2 DEF CommitOK, Blocks
<1>4. CardOK'
  BY DEF IInv, CardOK
<1>5. BootOK'
  <2>1. CASE pc = "boot"
    BY <1>2, <2>1 DEF IInv, BootOK
  <2>2. CASE pc = "enable"
    <3>1. ASSUME mounted, ~suspect
          PROVE  /\ s_NV_ENC' = cipher /\ s_NV' = promised
                 /\ cipher = Encrypt(promised) /\ fsize = "exact"
      <4>1. s_NV_ENC = cipher /\ cipher = Encrypt(promised) /\ fsize = "exact"
        BY <2>2, <3>1 DEF IInv, BootOK
      <4>2. cipher = [i \in Blocks |-> cipher[i]]
        BY DEF IInv, TypeOK, IsCipher
      <4>3. s_NV_ENC' = cipher /\ s_NV' = Decrypt(cipher)
        BY <3>1, <4>1, <4>2
      <4> QED
        BY <4>1, <4>3, DecryptEncrypt DEF IInv, TypeOK
    <3>2. pc' = "commit" \/ pc' = "init"
      BY <2>2
    <3>3. s_NvFile' <=> mounted'
      BY <1>2
    <3> QED
      BY <1>2, <2>2, <3>1, <3>2, <3>3 DEF BootOK
  <2> QED
    BY <2>1, <2>2
<1>6. CommandOK'
  BY <1>2 DEF CommandOK
<1> QED
  BY <1>1, <1>3, <1>4, <1>5, <1>6 DEF IInv
LEMMA ManufactureIInv ==
    ASSUME IInv, TPM_Manufacture
    PROVE  IInv'
<1> USE DEF TPM_Manufacture, card, hist, StartCommit
<1>1. TypeOK'
  <2>1. s_NV' \in [Blocks -> Int]
    BY DEF IInv, TypeOK, Blocks, SU_CLEAR
  <2>2. IsCipher(s_NV_ENC')
    BY <2>1, EncryptIsCipher DEF IInv, TypeOK
  <2>3. gp' \in [orderly : Int, seed : Int]
    BY DEF IInv, TypeOK, SU_CLEAR
  <2>4. block' \in Blocks /\ after' \in {"manufacture", "disable", "init", "answer"}
    BY DEF IInv, TypeOK, Blocks
  <2> QED
    BY <2>1, <2>2, <2>3, <2>4 DEF IInv, TypeOK, IsCipher
<1>2. ~g_inFailureMode /\ ~g_initialized /\ (s_NvFile <=> mounted)
  BY DEF IInv, BootOK
<1>3. CommitOK'
  <2> SUFFICES ASSUME pc' = "commit" PROVE CommitOK'
    BY DEF CommitOK
  <2>1. s_NeedsManufacture /\ mounted /\ s_NV_ENC' = Encrypt(s_NV') /\ block' = 1 /\ after' = "disable"
    BY DEF IInv, BootOK
  <2>2. ~suspect /\ fsize = "exact" => cipher = Encrypt(promised)
    BY DEF IInv, CardOK
  <2> QED
    BY <1>2, <2>1, <2>2 DEF CommitOK, Blocks
<1>4. CardOK'
  BY DEF IInv, CardOK
<1>5. BootOK'
  <2>1. CASE s_NeedsManufacture
    BY <1>2, <2>1 DEF BootOK
  <2>2. CASE ~s_NeedsManufacture
    BY <1>2, <2>2 DEF IInv, BootOK, CardOK
  <2> QED
    BY <2>1, <2>2
<1>6. CommandOK'
  BY <1>2 DEF CommandOK
<1> QED
  BY <1>1, <1>3, <1>4, <1>5, <1>6 DEF IInv

LEMMA NVDisableIInv ==
    ASSUME IInv, NVDisable
    PROVE  IInv'
<1> USE DEF NVDisable, tpm, hist
<1>1. TypeOK'
  BY ZenonT(30) DEF IInv, TypeOK, IsCipher
<1>2. ~g_inFailureMode /\ ~g_initialized /\ (s_NvFile <=> mounted)
  BY DEF IInv, BootOK
<1>3. CommitOK'
  BY DEF CommitOK
<1>4. CardOK'
  BY <1>2 DEF IInv, CardOK, BootOK
<1>5. BootOK'
  BY <1>2 DEF IInv, BootOK
<1>6. CommandOK'
  BY <1>2 DEF CommandOK
<1> QED
  BY <1>1, <1>3, <1>4, <1>5, <1>6 DEF IInv

LEMMA TPM_InitIInv ==
    ASSUME IInv, TPM_Init
    PROVE  IInv'
<1> USE DEF TPM_Init, card, hist
<1>1. TypeOK'
  <2>1. gp' \in [orderly : Int, seed : Int]
    BY DEF IInv, TypeOK, Blocks
  <2> QED
    BY <2>1, ZenonT(30) DEF IInv, TypeOK, IsCipher
<1>2. ~g_inFailureMode /\ ~g_initialized /\ (s_NvFile <=> mounted)
  BY DEF IInv, BootOK
<1>3. CommitOK'
  BY DEF CommitOK
<1>4. CardOK'
  BY DEF IInv, CardOK
<1>5. BootOK'
  BY <1>2 DEF IInv, BootOK
<1>6. CommandOK'
  BY <1>2 DEF IInv, CommandOK, BootOK
<1> QED
  BY <1>1, <1>3, <1>4, <1>5, <1>6 DEF IInv
-----------------------------------------------------------------------------
(* The commit *)

LEMMA WriteBlockIInv ==
    ASSUME IInv, WriteBlock
    PROVE  IInv'
<1> USE DEF WriteBlock, tpm, hist
<1>1. block \in Blocks /\ IsCipher(cipher) /\ IsCipher(s_NV_ENC) /\ s_NV \in [Blocks -> Int]
  BY DEF IInv, TypeOK
<1>2. IsCipher(cipher')
  BY <1>1 DEF IsCipher
<1>3. \A i \in Blocks : cipher'[i] = IF i = block THEN s_NV_ENC[i] ELSE cipher[i]
  BY <1>1 DEF IsCipher
<1>4. s_NvFile /\ mounted /\ ~g_inFailureMode /\ s_NV_ENC = Encrypt(s_NV)
  BY DEF IInv, CommitOK
<1>5. CASE block < 3
  <2>1. block' \in Blocks /\ block' = block + 1
    BY <1>1, <1>5 DEF Blocks
  <2>2. TypeOK'
    BY <1>2, <1>5, <2>1 DEF IInv, TypeOK, IsCipher
  <2>3. CommitOK'
    <3>1. ASSUME NEW i \in Blocks, i < block' PROVE cipher'[i] = s_NV_ENC'[i]
      <4>1. i = block \/ i < block
        BY <1>1, <2>1, <3>1 DEF Blocks
      <4> QED
        BY <1>3, <4>1 DEF IInv, CommitOK
    <3>2. ASSUME ~suspect, fsize = "exact", NEW i \in Blocks, i >= block'
          PROVE  cipher'[i] = Encrypt(promised)[i]
      <4>1. i # block /\ i >= block
        BY <1>1, <2>1, <3>2 DEF Blocks
      <4> QED
        BY <1>3, <3>2, <4>1 DEF IInv, CommitOK
    <3> QED
      BY <1>5, <3>1, <3>2 DEF IInv, CommitOK
  <2> QED
    BY <1>5, <2>2, <2>3 DEF IInv, BootOK, CardOK, CommandOK
<1>6. CASE ~(block < 3)
  <2> USE DEF Return, Grown
  <2>1. block = 3
    BY <1>1, <1>6 DEF Blocks
  <2>2. cipher' = s_NV_ENC
    <3>1. ASSUME NEW i \in Blocks PROVE cipher'[i] = s_NV_ENC[i]
      <4>1. i = block \/ i < block
        BY <2>1 DEF Blocks
      <4> QED
        BY <1>3, <4>1 DEF IInv, CommitOK
    <3> QED
      BY <1>1, <1>2, <3>1, CipherEqual, ZenonT(30)
  <2>3. promised' = s_NV /\ cipher' = Encrypt(promised') /\ openSize' = "exact"
    BY <1>4, <1>6, <2>2 DEF IInv, CardOK
  <2>4. suspect' \in BOOLEAN /\ (~suspect' => ~suspect \/ after = "disable")
    BY <1>6, Zenon DEF IInv, TypeOK
  <2>5. pc' = IF after = "answer" THEN "idle" ELSE after
    BY <1>6
  <2>6. TypeOK'
    BY <1>1, <1>2, <1>6, <2>3, <2>4, <2>5 DEF IInv, TypeOK, IsCipher
  <2>7. CommitOK'
    BY <2>5, <2>6 DEF IInv, TypeOK, CommitOK
  <2>8. CardOK'
    BY <2>3 DEF IInv, CardOK
  <2>9. BootOK'
    <3>1. after \in {"manufacture", "disable", "init", "answer"}
      BY DEF IInv, TypeOK
    <3>2. after = "init" => suspect'
      BY <1>6, ZenonT(30) DEF IInv, CommitOK
    <3>3. after = "manufacture" => s_NeedsManufacture
      BY DEF IInv, CommitOK
    <3>4. after # "answer" => ~g_initialized
      BY DEF IInv, CommitOK
    <3> QED
      BY <1>4, <2>2, <2>3, <2>5, <3>1, <3>2, <3>3, <3>4 DEF BootOK
  <2>10. CommandOK'
    <3>1. after = "answer" /\ ~suspect' => fsize = "exact"
      BY <2>4 DEF IInv, CommitOK
    <3>2. after \in {"manufacture", "disable", "init", "answer"}
      BY DEF IInv, TypeOK
    <3> QED
      BY <1>4, <2>3, <2>5, <3>1, <3>2 DEF IInv, CommandOK
  <2> QED
    BY <2>6, <2>7, <2>8, <2>9, <2>10 DEF IInv
<1> QED
  BY <1>5, <1>6
LEMMA WriteFailsIInv ==
    ASSUME IInv, WriteFails
    PROVE  IInv'
<1> USE DEF WriteFails, Return, card, plat
<1>1. g_inFailureMode' \in BOOLEAN /\ suspect' \in BOOLEAN
  BY Zenon
<1>2. pc' = IF after = "answer" THEN "idle" ELSE after
  OBVIOUS
<1>3. after \in {"manufacture", "disable", "init", "answer"}
  BY DEF IInv, TypeOK
<1>4. TypeOK'
  BY <1>1, <1>2, <1>3 DEF IInv, TypeOK, IsCipher
<1>5. s_NvFile /\ mounted /\ ~g_inFailureMode
  BY DEF IInv, CommitOK
<1>6. after # "answer" => suspect' /\ ~g_initialized /\ ~g_inFailureMode'
  BY <1>5, ZenonT(30) DEF IInv, CommitOK
<1>7. CommitOK'
  BY <1>2, <1>3 DEF CommitOK
<1>8. CardOK'
  <2>1. ASSUME ~suspect', fsize = "exact"
        PROVE  cipher = Encrypt(promised)
    <3>1. ~suspect /\ ~(block > 1)
      BY <2>1, Zenon
    <3>2. block = 1
      BY <3>1 DEF IInv, TypeOK, Blocks
    <3>3. \A i \in Blocks : i >= block
      BY <3>2 DEF Blocks
    <3>4. \A i \in Blocks : cipher[i] = Encrypt(promised)[i]
      BY <2>1, <3>1, <3>3 DEF IInv, CommitOK
    <3> QED
      BY <3>4, CipherEqual, EncryptIsCipher DEF IInv, TypeOK
  <2> QED
    BY <2>1 DEF IInv, CardOK
<1>9. BootOK'
  BY <1>2, <1>3, <1>5, <1>6 DEF IInv, BootOK, CommitOK
<1>10. CommandOK'
  BY <1>2, <1>3, <1>6, ZenonT(30) DEF IInv, CommandOK
<1> QED
  BY <1>4, <1>7, <1>8, <1>9, <1>10 DEF IInv
-----------------------------------------------------------------------------
(* The commands *)

LEMMA StartupIInv ==
    ASSUME IInv, NEW type \in {SU_CLEAR, SU_STATE}, TPM2_Startup(type)
    PROVE  IInv'
<1> USE DEF TPM2_Startup, Accepts
<1>1. gp \in [orderly : Int, seed : Int] /\ s_NV \in [Blocks -> Int] /\ pc = "idle" /\ ~g_inFailureMode
  BY DEF IInv, TypeOK
<1>2. CASE \E rc \in {"NV_UNAVAILABLE", "VALUE"} : Refuse(rc)
  BY <1>1, <1>2, RefuseIInv
<1>3. CASE ~ \E rc \in {"NV_UNAVAILABLE", "VALUE"} : Refuse(rc)
  <2>0. SU_NONE # SU_STATE /\ gc \in Int /\ s_NV[3] \in Int
    BY <1>1 DEF SU_NONE, SU_STATE, IInv, TypeOK, Blocks
  <2>1. NvReady
    BY <1>3, ZenonT(30)
  <2>2. gp.seed = s_NV[2] /\ s_NvFile /\ g_initialized = FALSE
    BY <1>1, <2>1, ZenonT(30) DEF IInv, CommandOK, NvReady, TypeOK
  <2>3. ASSUME gp' = [gp EXCEPT !.orderly = SU_NONE], gc' \in {s_NV[3], 1, gc}
        PROVE  gp' \in [orderly : Int, seed : Int] /\ gp'.seed = gp.seed /\ gp'.orderly = SU_NONE /\ gc' \in Int
    BY <1>1, <2>0, <2>3 DEF SU_NONE
  <2>4. CASE /\ gp' = [gp EXCEPT !.orderly = SU_NONE] /\ gc' \in {s_NV[3], 1, gc}
             /\ g_initialized' = TRUE /\ UNCHANGED g_inFailureMode
             /\ Cleanup("SUCCESS", [s_NV EXCEPT ![1] = SU_NONE], TRUE)
    <3> DEFINE image == [s_NV EXCEPT ![1] = SU_NONE]
    <3>1. image \in [Blocks -> Int] /\ image[1] = SU_NONE /\ image[2] = s_NV[2]
      BY <1>1 DEF SU_NONE, Blocks
    <3>2. Cleanup("SUCCESS", image, TRUE) /\ g_initialized' = TRUE /\ g_inFailureMode' = FALSE
      BY <1>1, <2>4, ZenonT(30) DEF IInv, TypeOK
    <3> HIDE DEF image
    <3> QED
      BY <1>1, <2>0, <2>2, <2>3, <2>4, <3>1, <3>2, CleanupIInv, ZenonT(30)
  <2>5. CASE /\ gc' = 1 /\ g_initialized' = TRUE /\ g_inFailureMode' = TRUE /\ UNCHANGED gp
             /\ Cleanup("FAILURE", s_NV, FALSE)
    <3>1. gc' \in Int /\ gp' \in [orderly : Int, seed : Int]
      BY <1>1, <2>5
    <3> QED
      BY <1>1, <2>2, <2>5, <3>1, CleanupIInv, ZenonT(30)
  <2>6. CASE /\ gp' = [gp EXCEPT !.orderly = SU_NONE] /\ gc' \in {s_NV[3], 1, gc}
             /\ UNCHANGED <<g_initialized, g_inFailureMode>>
             /\ Cleanup("FAILURE", s_NV, FALSE)
    <3>1. g_inFailureMode' = FALSE /\ g_initialized' = FALSE
      BY <1>1, <2>2, <2>6, ZenonT(30) DEF IInv, TypeOK
    <3> QED
      BY <1>1, <2>2, <2>3, <2>6, <3>1, CleanupIInv, ZenonT(30)
  <2> QED
    BY <1>3, <2>4, <2>5, <2>6, ZenonT(30)
<1> QED
  BY <1>2, <1>3

LEMMA ShutdownIInv ==
    ASSUME IInv, NEW type \in {SU_CLEAR, SU_STATE}, TPM2_Shutdown(type)
    PROVE  IInv'
<1> USE DEF TPM2_Shutdown, Accepts
<1>1. gp \in [orderly : Int, seed : Int] /\ s_NV \in [Blocks -> Int] /\ pc = "idle" /\ ~g_inFailureMode
  BY DEF IInv, TypeOK
<1>2. /\ gp' \in [orderly : Int, seed : Int] /\ gp'.seed = gp.seed /\ gp'.orderly = type
      /\ gc' = gc /\ gc \in Int /\ g_inFailureMode' = FALSE /\ g_initialized' = g_initialized
      /\ g_initialized \in BOOLEAN
  BY <1>1 DEF SU_CLEAR, SU_STATE, IInv, TypeOK
<1>3. gp.seed = s_NV[2] /\ s_NvFile
  BY <1>1 DEF IInv, CommandOK, NvReady
<1> DEFINE image == [s_NV EXCEPT ![1] = type, ![3] = IF type = SU_STATE THEN gc ELSE @]
<1>4. /\ image \in [Blocks -> Int] /\ image[1] = type /\ image[2] = s_NV[2]
      /\ type = SU_STATE => image[3] = gc
  BY <1>1, <1>2 DEF SU_CLEAR, SU_STATE, Blocks
<1>5. Cleanup("SUCCESS", image, TRUE)
  BY ZenonT(30)
<1> HIDE DEF image, TPM2_Shutdown
<1> QED
  BY <1>1, <1>2, <1>3, <1>4, <1>5, CleanupIInv, ZenonT(30)

LEMMA ChangeEPSIInv ==
    ASSUME IInv, NEW seed \in Seeds, TPM2_ChangeEPS(seed)
    PROVE  IInv'
<1> USE DEF TPM2_ChangeEPS, Accepts, Orderly
<1>1. s_NV \in [Blocks -> Int] /\ pc = "idle" /\ ~g_inFailureMode /\ seed \in Int
  BY FaultsAssumption DEF IInv, TypeOK, Seeds
<1>2. /\ gp' \in [orderly : Int, seed : Int] /\ gp'.seed = seed /\ gp'.orderly = SU_NONE
      /\ gc' \in Int /\ g_initialized' \in BOOLEAN
  BY <1>1 DEF SU_NONE, IInv, TypeOK
<1>3. g_inFailureMode' \in BOOLEAN
  BY Zenon
<1>4. s_NvFile /\ SU_NONE # SU_STATE
  BY DEF NvReady, SU_NONE, SU_STATE
<1> DEFINE image == [s_NV EXCEPT ![1] = gp'.orderly, ![2] = seed]
<1>5. image \in [Blocks -> Int] /\ image[1] = SU_NONE /\ image[2] = seed
  BY <1>1, <1>2 DEF SU_NONE, Blocks
<1>6. Cleanup("SUCCESS", image, TRUE)
  BY ZenonT(30)
<1> HIDE DEF image, TPM2_ChangeEPS
<1> QED
  BY <1>1, <1>2, <1>3, <1>4, <1>5, <1>6, CleanupIInv, ZenonT(30)

LEMMA HierarchyControlIInv ==
    ASSUME IInv, NEW enable \in {0, 1}, TPM2_HierarchyControl(enable)
    PROVE  IInv'
<1> USE DEF TPM2_HierarchyControl, Accepts, Orderly
<1>1. /\ gp \in [orderly : Int, seed : Int] /\ s_NV \in [Blocks -> Int]
      /\ pc = "idle" /\ ~g_inFailureMode /\ g_initialized
  BY ZenonT(30) DEF IInv, TypeOK
<1>2. /\ gp' \in [orderly : Int, seed : Int] /\ gp'.seed = gp.seed
      /\ gp'.orderly = IF enable # gc THEN SU_NONE ELSE gp.orderly
      /\ gc' = enable /\ gc' \in Int
      /\ g_inFailureMode' = FALSE /\ g_initialized' = TRUE
  BY <1>1 DEF SU_NONE, IInv, TypeOK
<1>3. /\ gp.seed = s_NV[2] /\ gp.orderly = s_NV[1] /\ s_NvFile
      /\ gp.orderly = SU_STATE => s_NV[3] = gc
  BY <1>1 DEF IInv, CommandOK
<1> DEFINE image == [s_NV EXCEPT ![1] = gp'.orderly]
           written == gp' # gp
<1>4. /\ image \in [Blocks -> Int] /\ image[1] = gp'.orderly /\ image[2] = s_NV[2]
      /\ image[3] = s_NV[3]
  BY <1>1, <1>2 DEF Blocks
<1>5. Cleanup("SUCCESS", image, written) /\ written \in BOOLEAN
  OBVIOUS
<1>6. ~written => image = s_NV
  BY <1>1, <1>3
<1>7. gp'.orderly = SU_STATE => image[3] = gc'
  BY <1>2, <1>3, <1>4 DEF SU_NONE, SU_STATE
<1> HIDE DEF image, written, TPM2_HierarchyControl
<1> QED
  BY <1>1, <1>2, <1>3, <1>4, <1>5, <1>6, <1>7, CleanupIInv, ZenonT(30)

LEMMA SelfTestIInv ==
    ASSUME IInv, TPM2_SelfTest
    PROVE  IInv'
<1> USE DEF TPM2_SelfTest, Accepts
<1>1. /\ gp' \in [orderly : Int, seed : Int] /\ s_NV \in [Blocks -> Int] /\ gc' \in Int
      /\ g_initialized /\ g_initialized' \in BOOLEAN
  BY ZenonT(30) DEF IInv, TypeOK
<1>2. s_NvFile
  BY <1>1 DEF IInv, CommandOK
<1> QED
  BY <1>1, <1>2, CleanupIInv, ZenonT(30)

LEMMA NextIInv ==
    ASSUME IInv, [Next]_vars
    PROVE  IInv'
<1>1. CASE PowerOn \/ PowerLoss
  BY <1>1, PowerOnIInv, PowerLossIInv
<1>2. CASE Boot
  BY <1>2, NVEnableIInv, ManufactureIInv, NVDisableIInv, TPM_InitIInv
     DEF Boot, FirstEnable, SecondEnable
<1>3. CASE Commit
  BY <1>3, WriteBlockIInv, WriteFailsIInv DEF Commit
<1>4. CASE Command
  BY <1>4, RefuseIInv, StartupIInv, ShutdownIInv, ChangeEPSIInv, HierarchyControlIInv,
     SelfTestIInv DEF Command, FailureMode, OutOfOrder
<1>5. CASE UNCHANGED vars
  BY <1>5 DEF vars, card, plat, tpm, ctl, hist, IInv, TypeOK, IsCipher, BootOK, CommitOK,
              CardOK, CommandOK
<1> QED
  BY <1>1, <1>2, <1>3, <1>4, <1>5 DEF Next
-----------------------------------------------------------------------------
(* Without write errors the erased image never has a directory entry *)

LEMMA SeededStep ==
    ASSUME IInv, IInv', Seeded, "write" \notin Faults, [Next]_vars
    PROVE  Seeded'
<1> USE DEF card, plat, tpm, hist, StartCommit
<1>0. IsCipher(cipher) /\ s_NV \in [Blocks -> Int] /\ block \in Blocks /\ 2 \in Blocks
  BY DEF IInv, TypeOK, Blocks
<1>1. CASE PowerOn
  BY <1>1, ZenonT(30) DEF PowerOn, Seeded, IInv, BootOK
<1>2. CASE PowerLoss
  BY <1>2, ZenonT(30) DEF PowerLoss, Seeded
<1>3. ASSUME NEW next, NVEnable(next),
             \/ pc = "boot" /\ next = "manufacture"
             \/ pc = "enable" /\ next = "init"
      PROVE  Seeded'
  <2> USE DEF NVEnable
  <2>1. ~g_initialized /\ ~g_initialized'
    BY <1>3 DEF IInv, BootOK
  <2>2. fsize' = "exact" => fsize = "exact"
    BY <1>3
  <2>3. ASSUME pc' = "commit" PROVE pc = "boot" /\ fsize' # "exact" /\ after' = "manufacture"
    BY <1>3, <2>3 DEF Seeded
  <2>4. ASSUME pc' = "init", mounted' PROVE s_NV'[2] # Erased
    <3>1. pc = "enable" /\ fsize = "exact" /\ cipher[2][2] # Erased /\ s_NV_ENC[2][2] # Erased
      BY <1>3, <2>4 DEF Seeded
    <3>2. s_NV_ENC'[2][2] # Erased /\ s_NV' = Decrypt(s_NV_ENC')
      BY <1>0, <1>3, <2>4, <3>1
    <3> QED
      BY <1>0, <3>2 DEF Decrypt, Garbled, Erased
  <2>5. pc' \in {"commit", "init", "manufacture"}
    BY <1>3
  <2> QED
    BY <1>3, <2>1, <2>2, <2>3, <2>4, <2>5 DEF Seeded
<1>4. CASE TPM_Manufacture
  <2>1. ~g_initialized /\ ~g_initialized'
    BY <1>4 DEF IInv, BootOK, TPM_Manufacture
  <2>2. CASE s_NeedsManufacture
    <3>1. s_NV'[2] # Erased
      BY <1>0, <1>4, <2>2 DEF TPM_Manufacture, Erased, Blocks
    <3> QED
      BY <1>4, <2>1, <2>2, <3>1 DEF TPM_Manufacture, Seeded
  <2>3. CASE ~s_NeedsManufacture
    <3>1. mounted => fsize = "exact" /\ openSize = "exact" /\ s_NV_ENC = cipher
      BY <1>4, <2>3 DEF IInv, BootOK, TPM_Manufacture
    <3> QED
      BY <1>4, <2>1, <2>3, <3>1 DEF TPM_Manufacture, Seeded
  <2> QED
    BY <2>2, <2>3
<1>5. CASE NVDisable
  <2>1. s_NvFile <=> mounted
    BY <1>5 DEF IInv, BootOK, NVDisable
  <2> QED
    BY <1>5, <2>1, ZenonT(30) DEF NVDisable, Seeded
<1>6. CASE TPM_Init
  <2>1. s_NvFile <=> mounted
    BY <1>6 DEF IInv, BootOK, TPM_Init
  <2> QED
    BY <1>6, <2>1 DEF TPM_Init, Seeded
<1>7. CASE WriteBlock
  <2> USE DEF WriteBlock
  <2>1. s_NV_ENC = Encrypt(s_NV) /\ s_NvFile /\ mounted
    BY <1>7 DEF IInv, CommitOK
  <2>2. s_NV_ENC[2][2] = s_NV[2]
    BY <1>0, <2>1 DEF Encrypt
  <2>3. cipher'[2] = IF block = 2 THEN s_NV_ENC[2] ELSE cipher[2]
    BY <1>0, <1>7 DEF IsCipher
  <2>4. after \in {"manufacture", "disable", "init", "answer"}
    BY DEF IInv, TypeOK
  <2>5. fsize = "exact" => cipher'[2][2] # Erased
    BY <1>7, <2>2, <2>3, <2>4 DEF Seeded
  <2>6. CASE block < 3
    BY <1>7, <2>5, <2>6 DEF Seeded
  <2>7. CASE ~(block < 3)
    <3>1. cipher'[2] = s_NV_ENC[2]
      BY <1>0, <1>7, <2>7 DEF IInv, CommitOK, Blocks
    <3>2. openSize' = "exact"
      BY <1>7, <2>7 DEF IInv, CardOK, Grown
    <3>3. pc' = IF after = "answer" THEN "idle" ELSE after
      BY <1>7, <2>7 DEF Return
    <3> QED
      BY <1>7, <2>2, <2>4, <2>5, <3>1, <3>2, <3>3 DEF Seeded
  <2> QED
    BY <2>6, <2>7
<1>8. CASE WriteFails
  BY <1>8 DEF WriteFails
<1>9. CASE Command
  <2>1. ASSUME NEW rc, NEW image, NEW written, Cleanup(rc, image, written), pc = "idle",
               s_NvFile => image[2] # Erased,
               g_initialized' => gp'.seed # Erased,
               written => s_NvFile
        PROVE  Seeded'
    <3>1. pc' \in {"idle", "commit"} /\ (pc' = "commit" => after' = "answer" /\ s_NvFile)
      BY <2>1 DEF Cleanup
    <3> QED
      BY <2>1, <3>1 DEF Cleanup, Seeded
  <2>2. ASSUME NEW rc, Refuse(rc), pc = "idle" PROVE Seeded'
    BY <2>1, <2>2, ZenonT(30) DEF Refuse, Seeded
  <2>3. ASSUME NEW type \in {SU_CLEAR, SU_STATE}, TPM2_Startup(type) PROVE Seeded'
    <3>1. CASE \E rc \in {"NV_UNAVAILABLE", "VALUE"} : Refuse(rc)
      BY <2>2, <2>3, <3>1 DEF TPM2_Startup, Accepts
    <3>2. CASE ~ \E rc \in {"NV_UNAVAILABLE", "VALUE"} : Refuse(rc)
      <4>1. /\ NvReady /\ pc = "idle" /\ ~g_inFailureMode
            /\ gp' = [gp EXCEPT !.orderly = SU_NONE] \/ gp' = gp
        BY <2>3, <3>2, ZenonT(30) DEF TPM2_Startup, Accepts
      <4>2. gp'.seed = gp.seed /\ gp.seed = s_NV[2] /\ s_NV[2] # Erased
        BY <4>1 DEF IInv, TypeOK, CommandOK, NvReady, Seeded
      <4>3. [s_NV EXCEPT ![1] = SU_NONE][2] = s_NV[2]
        BY <1>0 DEF Blocks
      <4>4. \/ Cleanup("SUCCESS", [s_NV EXCEPT ![1] = SU_NONE], TRUE)
            \/ Cleanup("FAILURE", s_NV, FALSE)
        BY <2>3, <3>2, ZenonT(30) DEF TPM2_Startup
      <4> QED
        BY <2>1, <4>1, <4>2, <4>3, <4>4, ZenonT(30) DEF NvReady
    <3> QED
      BY <3>1, <3>2
  <2>4. ASSUME NEW type \in {SU_CLEAR, SU_STATE}, TPM2_Shutdown(type) PROVE Seeded'
    <3> DEFINE image == [s_NV EXCEPT ![1] = type, ![3] = IF type = SU_STATE THEN gc ELSE @]
    <3>1. image[2] = s_NV[2]
      BY <1>0 DEF Blocks
    <3>2. gp'.seed = gp.seed /\ g_initialized' = g_initialized
      BY <2>4 DEF TPM2_Shutdown, IInv, TypeOK
    <3>3. Cleanup("SUCCESS", image, TRUE) /\ pc = "idle" /\ s_NvFile
      BY <2>4, ZenonT(30) DEF TPM2_Shutdown, Accepts, NvReady
    <3> HIDE DEF image
    <3> QED
      BY <2>1, <3>1, <3>2, <3>3, ZenonT(30) DEF Seeded
  <2>5. ASSUME NEW seed \in Seeds, TPM2_ChangeEPS(seed) PROVE Seeded'
    <3> DEFINE image == [s_NV EXCEPT ![1] = gp'.orderly, ![2] = seed]
    <3>1. image[2] = seed /\ seed # Erased /\ gp'.seed = seed
      BY <1>0, <2>5, FaultsAssumption DEF Blocks, Seeds, Erased, TPM2_ChangeEPS
    <3>2. Cleanup("SUCCESS", image, TRUE) /\ pc = "idle" /\ s_NvFile
      BY <2>5, ZenonT(30) DEF TPM2_ChangeEPS, Accepts, NvReady
    <3> HIDE DEF image
    <3> QED
      BY <2>1, <3>1, <3>2, ZenonT(30)
  <2>6. ASSUME NEW enable \in {0, 1}, TPM2_HierarchyControl(enable) PROVE Seeded'
    <3> DEFINE image == [s_NV EXCEPT ![1] = gp'.orderly]
               written == gp' # gp
    <3>1. image[2] = s_NV[2]
      BY <1>0 DEF Blocks
    <3>2. gp'.seed = gp.seed /\ g_initialized' = g_initialized
      BY <2>6 DEF TPM2_HierarchyControl, IInv, TypeOK
    <3>3. Cleanup("SUCCESS", image, written) /\ pc = "idle" /\ s_NvFile
      BY <2>6, ZenonT(30) DEF TPM2_HierarchyControl, Accepts, IInv, CommandOK, TypeOK
    <3> HIDE DEF image, written
    <3> QED
      BY <2>1, <3>1, <3>2, <3>3, ZenonT(30) DEF Seeded
  <2>7. ASSUME TPM2_SelfTest PROVE Seeded'
    BY <2>1, <2>7, ZenonT(30) DEF TPM2_SelfTest, Accepts, Seeded
  <2> QED
    BY <1>9, <2>2, <2>3, <2>4, <2>5, <2>6, <2>7 DEF Command, FailureMode, OutOfOrder
<1>10. CASE UNCHANGED vars
  BY <1>10, ZenonT(30) DEF vars, ctl, Seeded
<1> QED
  BY <1>1, <1>2, <1>3, <1>4, <1>5, <1>6, <1>7, <1>8, <1>9, <1>10
     DEF Next, Boot, Commit, FirstEnable, SecondEnable
-----------------------------------------------------------------------------
(* With write errors: an image that was committed in full is manufactured *)

LEMMA WholeStep ==
    ASSUME IInv, IInv', Whole, [Next]_vars
    PROVE  Whole'
<1> USE DEF card, plat, tpm, hist, StartCommit
<1>0. /\ IsCipher(cipher) /\ s_NV \in [Blocks -> Int] /\ block \in Blocks /\ 2 \in Blocks
      /\ after \in {"manufacture", "disable", "init", "answer"}
  BY DEF IInv, TypeOK, Blocks
<1>1. CASE PowerOn
  BY <1>1, ZenonT(30) DEF PowerOn, Whole, IInv, BootOK
<1>2. CASE PowerLoss
  BY <1>2, ZenonT(30) DEF PowerLoss, Whole
<1>3. ASSUME NEW next, NVEnable(next),
             \/ pc = "boot" /\ next = "manufacture"
             \/ pc = "enable" /\ next = "init"
      PROVE  Whole'
  <2> USE DEF NVEnable
  <2>1. ~g_initialized /\ ~g_initialized' /\ suspect' = suspect /\ cipher' = cipher
    BY <1>3 DEF IInv, BootOK
  <2>2. fsize' = "exact" => fsize = "exact"
    BY <1>3
  <2>3. ASSUME pc' = "commit"
        PROVE  fsize' # "exact" /\ after' \in {"manufacture", "init"}
    BY <1>3, <2>3
  <2>4. ASSUME pc' = "init", mounted', ~suspect PROVE s_NV'[2] # Erased
    <3>1. pc = "enable" /\ fsize = "exact" /\ cipher[2][2] # Erased /\ s_NV_ENC = cipher
      BY <1>3, <2>4 DEF Whole, IInv, BootOK
    <3>2. s_NV_ENC'[2][2] # Erased /\ s_NV' = Decrypt(s_NV_ENC')
      BY <1>0, <1>3, <2>4, <3>1
    <3> QED
      BY <1>0, <3>2 DEF Decrypt, Garbled, Erased
  <2>5. pc' \in {"commit", "init", "manufacture"}
    BY <1>3
  <2> QED
    BY <2>1, <2>2, <2>3, <2>4, <2>5 DEF Whole
<1>4. CASE TPM_Manufacture
  <2>1. ~g_initialized /\ ~g_initialized'
    BY <1>4 DEF IInv, BootOK, TPM_Manufacture
  <2>2. CASE s_NeedsManufacture
    <3>1. s_NV'[2] # Erased
      BY <1>0, <1>4, <2>2 DEF TPM_Manufacture, Erased, Blocks
    <3> QED
      BY <1>4, <2>1, <2>2, <3>1 DEF TPM_Manufacture, Whole
  <2>3. CASE ~s_NeedsManufacture
    <3>1. mounted => fsize = "exact"
      BY <1>4, <2>3 DEF IInv, BootOK, TPM_Manufacture
    <3> QED
      BY <1>4, <2>1, <2>3, <3>1 DEF TPM_Manufacture, Whole
  <2> QED
    BY <2>2, <2>3
<1>5. CASE NVDisable
  <2>1. s_NvFile <=> mounted
    BY <1>5 DEF IInv, BootOK, NVDisable
  <2> QED
    BY <1>5, <2>1, ZenonT(30) DEF NVDisable, Whole
<1>6. CASE TPM_Init
  <2>1. s_NvFile <=> mounted
    BY <1>6 DEF IInv, BootOK, TPM_Init
  <2> QED
    BY <1>6, <2>1 DEF TPM_Init, Whole
<1>7. CASE WriteBlock
  <2> USE DEF WriteBlock
  <2>1. s_NV_ENC = Encrypt(s_NV) /\ (after = "init" => suspect) /\ (after # "answer" => ~g_initialized)
    BY <1>7 DEF IInv, CommitOK
  <2>2. s_NV_ENC[2][2] = s_NV[2]
    BY <1>0, <2>1 DEF Encrypt
  <2>3. cipher'[2] = IF block = 2 THEN s_NV_ENC[2] ELSE cipher[2]
    BY <1>0, <1>7 DEF IsCipher
  <2>4. fsize = "exact" /\ ~suspect => cipher'[2][2] # Erased
    BY <1>0, <1>7, <2>1, <2>2, <2>3 DEF Whole
  <2>5. CASE block < 3
    <3>1. suspect' = suspect
      BY <1>7, <2>5
    <3> QED
      BY <1>7, <2>4, <2>5, <3>1 DEF Whole
  <2>6. CASE ~(block < 3)
    <3>1. cipher'[2] = s_NV_ENC[2]
      BY <1>0, <1>7, <2>6 DEF IInv, CommitOK, Blocks
    <3>2. pc' = IF after = "answer" THEN "idle" ELSE after
      BY <1>7, <2>6 DEF Return
    <3>3. ~suspect' => ~suspect \/ after = "disable"
      BY <1>7, <2>6
    <3> QED
      BY <1>0, <1>7, <2>1, <2>2, <2>4, <3>1, <3>2, <3>3 DEF Whole
  <2> QED
    BY <2>5, <2>6
<1>8. CASE WriteFails
  <2>1. /\ pc' = IF after = "answer" THEN "idle" ELSE after
        /\ ~suspect' => ~suspect /\ after = "answer"
    BY <1>8 DEF WriteFails, Return
  <2> QED
    BY <1>8, <2>1 DEF WriteFails, Whole
<1>9. CASE Command
  <2>1. ASSUME NEW rc, NEW image, NEW written, Cleanup(rc, image, written), pc = "idle",
               s_NvFile /\ ~suspect => image[2] # Erased,
               g_initialized' /\ ~suspect => gp'.seed # Erased,
               written => s_NvFile
        PROVE  Whole'
    <3>1. pc' \in {"idle", "commit"} /\ (pc' = "commit" => after' = "answer" /\ s_NvFile)
      BY <2>1 DEF Cleanup
    <3> QED
      BY <2>1, <3>1 DEF Cleanup, Whole
  <2>2. ASSUME NEW rc, Refuse(rc), pc = "idle" PROVE Whole'
    BY <2>1, <2>2, ZenonT(30) DEF Refuse, Whole
  <2>3. ASSUME NEW type \in {SU_CLEAR, SU_STATE}, TPM2_Startup(type) PROVE Whole'
    <3>1. CASE \E rc \in {"NV_UNAVAILABLE", "VALUE"} : Refuse(rc)
      BY <2>2, <2>3, <3>1 DEF TPM2_Startup, Accepts
    <3>2. CASE ~ \E rc \in {"NV_UNAVAILABLE", "VALUE"} : Refuse(rc)
      <4>1. /\ NvReady /\ pc = "idle" /\ ~g_inFailureMode
            /\ gp' = [gp EXCEPT !.orderly = SU_NONE] \/ gp' = gp
        BY <2>3, <3>2, ZenonT(30) DEF TPM2_Startup, Accepts
      <4>2. gp'.seed = gp.seed /\ gp.seed = s_NV[2] /\ (~suspect => s_NV[2] # Erased)
        BY <4>1 DEF IInv, TypeOK, CommandOK, NvReady, Whole
      <4>3. [s_NV EXCEPT ![1] = SU_NONE][2] = s_NV[2]
        BY <1>0 DEF Blocks
      <4>4. \/ Cleanup("SUCCESS", [s_NV EXCEPT ![1] = SU_NONE], TRUE)
            \/ Cleanup("FAILURE", s_NV, FALSE)
        BY <2>3, <3>2, ZenonT(30) DEF TPM2_Startup
      <4> QED
        BY <2>1, <4>1, <4>2, <4>3, <4>4, ZenonT(30) DEF NvReady
    <3> QED
      BY <3>1, <3>2
  <2>4. ASSUME NEW type \in {SU_CLEAR, SU_STATE}, TPM2_Shutdown(type) PROVE Whole'
    <3> DEFINE image == [s_NV EXCEPT ![1] = type, ![3] = IF type = SU_STATE THEN gc ELSE @]
    <3>1. image[2] = s_NV[2]
      BY <1>0 DEF Blocks
    <3>2. gp'.seed = gp.seed /\ g_initialized' = g_initialized
      BY <2>4 DEF TPM2_Shutdown, IInv, TypeOK
    <3>3. Cleanup("SUCCESS", image, TRUE) /\ pc = "idle" /\ s_NvFile
      BY <2>4, ZenonT(30) DEF TPM2_Shutdown, Accepts, NvReady
    <3> HIDE DEF image
    <3> QED
      BY <2>1, <3>1, <3>2, <3>3, ZenonT(30) DEF Whole
  <2>5. ASSUME NEW seed \in Seeds, TPM2_ChangeEPS(seed) PROVE Whole'
    <3> DEFINE image == [s_NV EXCEPT ![1] = gp'.orderly, ![2] = seed]
    <3>1. image[2] = seed /\ seed # Erased /\ gp'.seed = seed
      BY <1>0, <2>5, FaultsAssumption DEF Blocks, Seeds, Erased, TPM2_ChangeEPS
    <3>2. Cleanup("SUCCESS", image, TRUE) /\ pc = "idle" /\ s_NvFile
      BY <2>5, ZenonT(30) DEF TPM2_ChangeEPS, Accepts, NvReady
    <3> HIDE DEF image
    <3> QED
      BY <2>1, <3>1, <3>2, ZenonT(30)
  <2>6. ASSUME NEW enable \in {0, 1}, TPM2_HierarchyControl(enable) PROVE Whole'
    <3> DEFINE image == [s_NV EXCEPT ![1] = gp'.orderly]
               written == gp' # gp
    <3>1. image[2] = s_NV[2]
      BY <1>0 DEF Blocks
    <3>2. gp'.seed = gp.seed /\ g_initialized' = g_initialized
      BY <2>6 DEF TPM2_HierarchyControl, IInv, TypeOK
    <3>3. Cleanup("SUCCESS", image, written) /\ pc = "idle" /\ s_NvFile
      BY <2>6, ZenonT(30) DEF TPM2_HierarchyControl, Accepts, IInv, CommandOK, TypeOK
    <3> HIDE DEF image, written
    <3> QED
      BY <2>1, <3>1, <3>2, <3>3, ZenonT(30) DEF Whole
  <2>7. ASSUME TPM2_SelfTest PROVE Whole'
    BY <2>1, <2>7, ZenonT(30) DEF TPM2_SelfTest, Accepts, Whole
  <2> QED
    BY <1>9, <2>2, <2>3, <2>4, <2>5, <2>6, <2>7 DEF Command, FailureMode, OutOfOrder
<1>10. CASE UNCHANGED vars
  BY <1>10, ZenonT(30) DEF vars, ctl, Whole
<1> QED
  BY <1>1, <1>2, <1>3, <1>4, <1>5, <1>6, <1>7, <1>8, <1>9, <1>10
     DEF Next, Boot, Commit, FirstEnable, SecondEnable
-----------------------------------------------------------------------------
(* What holds in every behaviour *)

\* The invariant holds, whatever fails and wherever the power is lost.
THEOREM Invariance == ASSUME NotLong PROVE Spec => []IInv
<1>1. Init => IInv
  BY InitIInv
<1>2. IInv /\ [Next]_vars => IInv'
  BY NextIInv
<1> QED
  BY <1>1, <1>2, PTL DEF Spec

\* Every variable of ftpm_init, NVMem.c and ExecuteCommand keeps its type.
THEOREM TypeCorrect == ASSUME NotLong PROVE Spec => []TypeOK
<1>1. IInv => TypeOK
  BY DEF IInv
<1> QED
  BY <1>1, Invariance, PTL

\* When ExecuteCommand has answered, gp and the image are on the card, unless a
\* commit was cut short.
THEOREM AnsweredIsDurable == ASSUME NotLong PROVE Spec => []Durable
<1>1. IInv => Durable
  BY DecryptEncrypt DEF IInv, TypeOK, CardOK, CommandOK, Durable
<1> QED
  BY <1>1, Invariance, PTL

\* Outside a commit NVChip holds the last image that NvFileCommit wrote in full.
THEOREM PromiseKept == ASSUME NotLong PROVE Spec => []CardKeepsPromise
<1>1. IInv => CardKeepsPromise
  BY DecryptEncrypt DEF IInv, TypeOK, CardOK, CardKeepsPromise
<1> QED
  BY <1>1, Invariance, PTL

\* The state that Startup(STATE) would restore is the state before power was lost.
THEOREM SavedIsCurrent == ASSUME NotLong PROVE Spec => []SavedStateIsCurrent
<1>1. IInv => SavedStateIsCurrent
  <2> SUFFICES ASSUME IInv, pc = "idle", g_initialized, ~g_inFailureMode, ~suspect,
                      Decrypt(cipher)[1] = SU_STATE
               PROVE  Decrypt(cipher)[3] = gc
    BY DEF SavedStateIsCurrent
  <2>1. s_NvFile /\ fsize = "exact" /\ s_NV = promised /\ gp.orderly = s_NV[1]
    BY DEF IInv, CommandOK
  <2>2. Decrypt(cipher) = s_NV
    BY <2>1, DecryptEncrypt DEF IInv, TypeOK, CardOK
  <2> QED
    BY <2>1, <2>2 DEF IInv, CommandOK
<1> QED
  BY <1>1, Invariance, PTL

\* In failure mode, and outside NvFileCommit, no step writes to the card.
THEOREM FrozenInFailureMode == ASSUME NotLong PROVE Spec => FailureFreezesCard
<1>1. IInv /\ [Next]_vars => [cipher' # cipher => pc = "commit" /\ ~g_inFailureMode]_vars
  <2> SUFFICES ASSUME IInv, [Next]_vars, cipher' # cipher
               PROVE  pc = "commit" /\ ~g_inFailureMode
    OBVIOUS
  <2>1. WriteBlock
    BY ZenonT(30) DEF Next, Boot, Commit, Command, PowerOn, FirstEnable, TPM_Manufacture, NVDisable,
           SecondEnable, TPM_Init, PowerLoss, WriteFails, NVEnable, FailureMode, OutOfOrder,
           TPM2_Startup, TPM2_Shutdown, TPM2_ChangeEPS, TPM2_HierarchyControl, TPM2_SelfTest,
           Refuse, Cleanup, card, vars
  <2> QED
    BY <2>1 DEF WriteBlock, IInv, CommitOK
<1> QED
  BY <1>1, Invariance, PTL DEF Spec, FailureFreezesCard

\* If no write fails, a TPM2_Startup is taken only on an image that TPM_Manufacture
\* completed, however often power is lost during the first boots.
THEOREM StartedIsManufactured ==
    ASSUME NotLong, "write" \notin Faults
    PROVE  Spec => []StartsManufactured
<1>1. Init => Seeded
  BY DEF Init, Seeded, Encrypt, ZeroImage, Image, Erased, Blocks
<1>2. IInv /\ IInv' /\ Seeded /\ [Next]_vars => Seeded'
  BY SeededStep
<1>3. Seeded => StartsManufactured
  BY DEF Seeded, StartsManufactured
<1> QED
  BY <1>1, <1>2, <1>3, Invariance, PTL DEF Spec

\* Whatever fails, write errors that TPM_Manufacture ignores included: unless a
\* commit was cut short since the last manufacture, a TPM2_Startup is taken only
\* on a manufactured image.
THEOREM StartedIsWhole == ASSUME NotLong PROVE Spec => []StartsFromWhole
<1>1. Init => Whole
  BY DEF Init, Whole, Encrypt, ZeroImage, Image, Erased, Blocks
<1>2. IInv /\ IInv' /\ Whole /\ [Next]_vars => Whole'
  BY WholeStep
<1>3. Whole => StartsFromWhole
  BY DEF Whole, StartsFromWhole
<1> QED
  BY <1>1, <1>2, <1>3, Invariance, PTL DEF Spec
=============================================================================
