------------------------- MODULE ConfigStore_proofs -------------------------
(* Theorems about ConfigStore, for every set of configurations, every      *)
(* sequence number and any number of restarts, saves and flash failures.   *)
EXTENDS ConfigStore, TLAPS

USE DEF Sectors, Other, Secondary

-----------------------------------------------------------------------------
(* What a sector can hold *)

LEMMA ContentsFacts ==
    ASSUME NEW x \in Contents, NEW c \in Configs \cup {Zero}, NEW n \in Nat
    PROVE  /\ x.cfg \in Configs \cup {Zero}
           /\ x.seq \in Nat
           /\ Sealed(c, n) \in Contents
           /\ Unsealed(c, n) \in Contents
           /\ Erased \in Contents
           /\ Torn \in Contents
           /\ CrcOk(Sealed(c, n)) /\ ~CrcOk(Unsealed(c, n)) /\ ~CrcOk(Erased) /\ ~CrcOk(Torn)
BY DEF Contents, Sealed, Unsealed, Erased, Torn, CrcOk

LEMMA OperationType ==
    ASSUME TypeOK, NEW x \in Contents
    PROVE  /\ Write(x) \in Contents
           /\ Seal(x) \in Contents
           /\ EraseFailed(x) \subseteq Contents
           /\ WriteFailed(x) \subseteq Contents
           /\ SealFailed(x) \subseteq Contents
<1>1. flashConfig.cfg \in Configs \cup {Zero} /\ seq \in Nat
  BY DEF TypeOK, seq
<1>2. Write(x) \in Contents
  BY <1>1, ContentsFacts DEF Write
<1>3. Seal(x) \in Contents
  BY <1>1, ContentsFacts DEF Seal
<1>. QED
  BY <1>1, <1>2, <1>3, ContentsFacts DEF EraseFailed, WriteFailed, SealFailed

LEMMA RestoredType ==
    ASSUME TypeOK, NEW bad \in SUBSET Sectors
    PROVE  /\ Chosen(bad) \in {-1, 0, 1}
           /\ Restored(bad) \in [cfg : Configs \cup {Zero}, seq : Nat]
<1>1. ASSUME NEW s \in Sectors PROVE Read(bad, s) \in Contents
  BY <1>1 DEF TypeOK, Read, Contents, Sealed
<1>2. Chosen(bad) \in {-1, 0, 1}
  BY DEF Chosen, selectPrimary
<1>3. CASE Chosen(bad) = -1
  BY <1>2, <1>3, ConfigAssumption DEF Restored
<1>4. CASE Chosen(bad) # -1
  <2>1. Read(bad, Chosen(bad)) \in Contents
    BY <1>1, <1>2, <1>4
  <2>2. Read(bad, Chosen(bad)).cfg \in Configs \cup {Zero} /\ Read(bad, Chosen(bad)).seq \in Nat
    BY <2>1 DEF Contents, Erased, Torn
  <2>. QED
    BY <1>2, <1>4, <2>2 DEF Restored
<1>. QED
  BY <1>2, <1>3, <1>4

LEMMA EraseOutcome ==
    ASSUME NEW y, NEW x \in EraseFailed(y)
    PROVE  x = Torn \/ (x = y /\ EraseFailKeeps)
BY ConfigAssumption DEF EraseFailed

LEMMA ReturnType ==
    ASSUME TypeOK, NEW ok \in BOOLEAN, return(ok)
    PROVE  /\ pc' \in {"boot", "idle"} \cup Saving
           /\ restorable' \in SUBSET (Configs \cup {Zero})
           /\ acked' \in BOOLEAN /\ ackedNow' \in BOOLEAN
<1>1. restorable' \in SUBSET (Configs \cup {Zero})
  BY DEF TypeOK, return
<1>2. acked' \in BOOLEAN /\ ackedNow' \in BOOLEAN
  BY Zenon DEF return
<1>. QED
  BY <1>1, <1>2 DEF return

LEMMA ReturnFacts ==
    ASSUME TypeOK, NEW ok \in BOOLEAN, return(ok)
    PROVE  /\ pc' = "idle"
           /\ ok => restorable' = {flashConfig.cfg} /\ ackedNow'
           /\ ~ok => UNCHANGED <<restorable, ackedNow>>
<1>1. ackedNow' = (ackedNow \/ ok) /\ ackedNow \in BOOLEAN
  BY DEF return, TypeOK
<1>2. (ok => ackedNow') /\ (~ok => ackedNow' = ackedNow)
  BY <1>1, Zenon
<1>. QED
  BY <1>2 DEF return

LEMMA FlashType ==
    ASSUME TypeOK, NEW s \in Sectors, NEW x \in Contents,
           flash' = [flash EXCEPT ![s] = x]
    PROVE  flash' \in [Sectors -> Contents]
BY DEF TypeOK

-----------------------------------------------------------------------------
(* Type correctness: every state the store can reach has a legal primary,  *)
(* a legal RAM copy, and in each sector something selectPrimary can read.  *)
THEOREM TypeCorrect == Spec => []TypeOK
<1>1. ASSUME Init PROVE TypeOK
  <2>1. flash \in [Sectors -> Contents]
    BY <1>1 DEF Init, Contents
  <2>. QED
    BY <1>1, <2>1, ConfigAssumption DEF Init, TypeOK
<1>2. TypeOK /\ [Next]_vars => TypeOK'
  <2>. SUFFICES ASSUME TypeOK, [Next]_vars PROVE TypeOK'
    OBVIOUS
  <2>0. /\ flash_pri \in {0, 1} /\ Secondary \in {0, 1} /\ flash \in [{0, 1} -> Contents]
        /\ flash[flash_pri] \in Contents /\ flash[Secondary] \in Contents
    BY DEF TypeOK
  <2>1. ASSUME NEW bad \in ReadErrors, configRestore(bad) PROVE TypeOK'
    <3>1. bad \in SUBSET Sectors
      BY <2>1, ConfigAssumption
    <3>2. Chosen(bad) \in {-1, 0, 1} /\ Restored(bad) \in [cfg : Configs \cup {Zero}, seq : Nat]
      BY <3>1, RestoredType
    <3>. QED
      BY <2>1, <3>2 DEF configRestore, TypeOK
  <2>2. ASSUME NEW c \in Configs, Edit(c) PROVE TypeOK'
    <3>1. flashConfig' \in [cfg : Configs \cup {Zero}, seq : Nat]
      BY <2>2 DEF Edit, TypeOK
    <3>. QED
      BY <2>2, <3>1 DEF Edit, TypeOK, history
  <2>3. CASE BeginSave
    BY <2>3 DEF BeginSave, TypeOK, Saving
  <2>4. CASE EraseSecondary
    <3>1. CASE /\ flash' = [flash EXCEPT ![Secondary] = Erased]
               /\ pc' \in Saving
               /\ UNCHANGED <<restorable, acked, ackedNow>>
      <4>1. flash' \in [Sectors -> Contents]
        BY <2>0, <3>1, ContentsFacts, OperationType, ConfigAssumption, FlashType
      <4>. QED
        BY <2>0, <2>4, <3>1, <4>1 DEF EraseSecondary, TypeOK
    <3>2. ASSUME NEW x \in EraseFailed(flash[Secondary]),
                 flash' = [flash EXCEPT ![Secondary] = x], return(FALSE)
          PROVE  TypeOK'
      <4>1. flash' \in [Sectors -> Contents]
        BY <2>0, <3>2, OperationType, FlashType
      <4>. QED
        BY <2>0, <2>4, <3>2, <4>1, ReturnType DEF EraseSecondary, TypeOK
    <3>. QED
      BY <2>4, <3>1, <3>2 DEF EraseSecondary, Saving
  <2>5. CASE WriteSecondary
    <3>1. CASE /\ flash' = [flash EXCEPT ![Secondary] = Write(flash[Secondary])]
               /\ pc' \in Saving
               /\ UNCHANGED <<restorable, acked, ackedNow>>
      <4>1. flash' \in [Sectors -> Contents]
        BY <2>0, <3>1, ContentsFacts, OperationType, ConfigAssumption, FlashType
      <4>. QED
        BY <2>0, <2>5, <3>1, <4>1 DEF WriteSecondary, TypeOK
    <3>2. ASSUME NEW x \in WriteFailed(flash[Secondary]),
                 flash' = [flash EXCEPT ![Secondary] = x], return(FALSE)
          PROVE  TypeOK'
      <4>1. flash' \in [Sectors -> Contents]
        BY <2>0, <3>2, OperationType, FlashType
      <4>. QED
        BY <2>0, <2>5, <3>2, <4>1, ReturnType DEF WriteSecondary, TypeOK
    <3>. QED
      BY <2>5, <3>1, <3>2 DEF WriteSecondary, Saving
  <2>6. CASE SealSecondary
    <3>1. CASE /\ flash' = [flash EXCEPT ![Secondary] = Seal(flash[Secondary])]
               /\ pc' \in Saving
               /\ UNCHANGED <<restorable, acked, ackedNow>>
      <4>1. flash' \in [Sectors -> Contents]
        BY <2>0, <3>1, ContentsFacts, OperationType, ConfigAssumption, FlashType
      <4>. QED
        BY <2>0, <2>6, <3>1, <4>1 DEF SealSecondary, TypeOK
    <3>2. ASSUME NEW x \in SealFailed(flash[Secondary]),
                 flash' = [flash EXCEPT ![Secondary] = x], return(FALSE)
          PROVE  TypeOK'
      <4>1. flash' \in [Sectors -> Contents]
        BY <2>0, <3>2, OperationType, FlashType
      <4>. QED
        BY <2>0, <2>6, <3>2, <4>1, ReturnType DEF SealSecondary, TypeOK
    <3>. QED
      BY <2>6, <3>1, <3>2 DEF SealSecondary, Saving
  <2>7. CASE ErasePrimary
    <3>1. CASE /\ flash' = [flash EXCEPT ![flash_pri] = Erased]
               /\ pc' \in Saving
               /\ UNCHANGED <<restorable, acked, ackedNow>>
      <4>1. flash' \in [Sectors -> Contents]
        BY <2>0, <3>1, ContentsFacts, OperationType, ConfigAssumption, FlashType
      <4>. QED
        BY <2>0, <2>7, <3>1, <4>1 DEF ErasePrimary, TypeOK
    <3>2. ASSUME NEW x \in EraseFailed(flash[flash_pri]),
                 flash' = [flash EXCEPT ![flash_pri] = x], return(TRUE)
          PROVE  TypeOK'
      <4>1. flash' \in [Sectors -> Contents]
        BY <2>0, <3>2, OperationType, FlashType
      <4>. QED
        BY <2>0, <2>7, <3>2, <4>1, ReturnType DEF ErasePrimary, TypeOK
    <3>. QED
      BY <2>7, <3>1, <3>2 DEF ErasePrimary, Saving
  <2>8. CASE WriteBackup
    <3>1. CASE /\ flash' = [flash EXCEPT ![Secondary] = Write(flash[Secondary])]
               /\ pc' \in Saving
               /\ UNCHANGED <<restorable, acked, ackedNow>>
      <4>1. flash' \in [Sectors -> Contents]
        BY <2>0, <3>1, ContentsFacts, OperationType, ConfigAssumption, FlashType
      <4>. QED
        BY <2>0, <2>8, <3>1, <4>1 DEF WriteBackup, TypeOK
    <3>2. ASSUME NEW x \in WriteFailed(flash[Secondary]),
                 flash' = [flash EXCEPT ![Secondary] = x], return(TRUE)
          PROVE  TypeOK'
      <4>1. flash' \in [Sectors -> Contents]
        BY <2>0, <3>2, OperationType, FlashType
      <4>. QED
        BY <2>0, <2>8, <3>2, <4>1, ReturnType DEF WriteBackup, TypeOK
    <3>. QED
      BY <2>8, <3>1, <3>2 DEF WriteBackup, Saving
  <2>9. CASE SealBackup
    <3>1. PICK x \in SealFailed(flash[Secondary]) :
              flash' = [flash EXCEPT ![Secondary] = x] /\ backedUp' = CrcOk(x)
      BY <2>9 DEF SealBackup
    <3>2. flash' \in [Sectors -> Contents]
      BY <2>0, <3>1, OperationType, FlashType
    <3>3. backedUp' \in BOOLEAN
      BY <3>1 DEF CrcOk
    <3>. QED
      BY <2>9, <3>2, <3>3, ReturnType DEF SealBackup, TypeOK
  <2>10. CASE PowerLoss
    <3>1. ASSUME NEW x \in Interrupted PROVE x \in Contents
      <4>1. CASE pc \in {"erase2", "erase1"}
        BY <2>0, <3>1, <4>1, ContentsFacts, ConfigAssumption DEF Interrupted
      <4>2. CASE pc \in {"write2", "write1"}
        BY <2>0, <3>1, <4>2, OperationType DEF Interrupted
      <4>3. CASE pc \in {"seal2", "seal1"}
        BY <2>0, <3>1, <4>3, OperationType DEF Interrupted
      <4>4. CASE pc \notin Saving
        BY <3>1, <4>4 DEF Interrupted, Saving
      <4>. QED
        BY <4>1, <4>2, <4>3, <4>4 DEF Saving
    <3>2. flash' \in [Sectors -> Contents]
      BY <2>0, <2>10, <3>1, FlashType DEF PowerLoss, TypeOK
    <3>. QED
      BY <2>10, <3>2 DEF PowerLoss, TypeOK, history
  <2>11. CASE UNCHANGED vars
    BY <2>11 DEF vars, TypeOK
  <2>. QED
    BY <2>1, <2>2, <2>3, <2>4, <2>5, <2>6, <2>7, <2>8, <2>9, <2>10, <2>11 DEF Next
<1>. QED
  BY <1>1, <1>2, PTL DEF Spec

-----------------------------------------------------------------------------
(* What configRestore picks when both reads succeed *)

ChosenIsGood ==
    /\ Chosen({}) \in {-1, 0, 1}
    /\ Chosen({}) = -1 <=> ~CrcOk(flash[0]) /\ ~CrcOk(flash[1])
    /\ Chosen({}) # -1 => CrcOk(flash[Chosen({})])
    /\ Chosen({}) = -1 => Restored({}) = [cfg |-> Default, seq |-> DefaultSeq]
    /\ Chosen({}) # -1 => /\ Restored({}).cfg = flash[Chosen({})].cfg
                          /\ Restored({}).seq = flash[Chosen({})].seq

LEMMA ChosenFacts == TypeOK => ChosenIsGood
<1>. SUFFICES ASSUME TypeOK PROVE ChosenIsGood
  OBVIOUS
<1>1. Read({}, 0) = flash[0] /\ Read({}, 1) = flash[1]
  BY DEF Read
<1>2. /\ Chosen({}) \in {-1, 0, 1}
      /\ Chosen({}) = -1 <=> ~CrcOk(flash[0]) /\ ~CrcOk(flash[1])
      /\ Chosen({}) # -1 => CrcOk(flash[Chosen({})])
  BY <1>1 DEF Chosen, selectPrimary
<1>. QED
  BY <1>1, <1>2 DEF Restored, ChosenIsGood

(* Each step of a save finds in the secondary sector what the step before  *)
(* it wrote, and once the primary has been switched it is a good copy of   *)
(* flashConfig (the order of the operations in configSave).                *)
THEOREM StepsInOrder == Spec => []StepInv
<1>1. Init => StepInv
  BY DEF Init, StepInv
<1>2. TypeOK /\ StepInv /\ [Next]_vars => StepInv'
  <2>. SUFFICES ASSUME TypeOK, StepInv, [Next]_vars PROVE StepInv'
    OBVIOUS
  <2>0. /\ flash_pri \in {0, 1} /\ Secondary \in {0, 1} /\ Secondary # flash_pri
        /\ flash \in [{0, 1} -> Contents]
    BY DEF TypeOK
  <2>1. ASSUME pc' \in {"boot", "idle", "erase2"} PROVE StepInv'
    BY <2>1 DEF StepInv
  <2>2. ASSUME NEW bad \in ReadErrors, configRestore(bad) PROVE StepInv'
    BY <2>1, <2>2 DEF configRestore
  <2>3. ASSUME NEW c \in Configs, Edit(c) PROVE StepInv'
    BY <2>1, <2>3 DEF Edit
  <2>4. CASE BeginSave
    BY <2>1, <2>4 DEF BeginSave
  <2>5. CASE EraseSecondary
    BY <2>0, <2>1, <2>5 DEF EraseSecondary, return, StepInv
  <2>6. CASE WriteSecondary
    BY <2>0, <2>1, <2>6 DEF WriteSecondary, return, StepInv, Write, seq
  <2>7. CASE SealSecondary
    BY <2>0, <2>1, <2>7 DEF SealSecondary, return, StepInv, Seal, seq, Unsealed
  <2>8. CASE ErasePrimary
    BY <2>0, <2>1, <2>8 DEF ErasePrimary, return, StepInv, CrcOk, Sealed
  <2>9. CASE WriteBackup
    BY <2>0, <2>1, <2>9 DEF WriteBackup, return, StepInv, Write, seq
  <2>10. CASE SealBackup
    BY <2>1, <2>10 DEF SealBackup, return
  <2>11. CASE PowerLoss
    BY <2>1, <2>11 DEF PowerLoss
  <2>12. CASE UNCHANGED vars
    BY <2>12 DEF vars, StepInv, seq
  <2>. QED
    BY <2>2, <2>3, <2>4, <2>5, <2>6, <2>7, <2>8, <2>9, <2>10, <2>11, <2>12 DEF Next
<1>. QED
  BY <1>1, <1>2, TypeCorrect, PTL DEF Spec

-----------------------------------------------------------------------------
(* NeverLost: after the first successful save there is always a sector with *)
(* a right CRC.  Every operation but ErasePrimary and PowerLoss leaves the  *)
(* primary alone, and ErasePrimary has a sealed secondary to switch to.     *)
THEOREM NeverLostHolds ==
    ASSUME ReadErrors \subseteq {{}}
    PROVE  Spec => []NeverLost
<1>1. Init => NeverLostInv
  BY DEF Init, NeverLostInv, StepInv
<1>2. TypeOK /\ NeverLostInv /\ StepInv' /\ [Next]_vars => NeverLostInv'
  <2>. SUFFICES ASSUME TypeOK, NeverLostInv, StepInv', [Next]_vars PROVE NeverLostInv'
    OBVIOUS
  <2>0. /\ flash_pri \in {0, 1} /\ Secondary \in {0, 1} /\ Secondary # flash_pri
        /\ flash \in [{0, 1} -> Contents]
    BY DEF TypeOK
  <2>1. ASSUME UNCHANGED flash_pri, flash'[flash_pri] = flash[flash_pri],
               acked' => acked \/ CrcOk(flash[flash_pri]), pc # "boot", pc' # "boot"
        PROVE  NeverLostInv'
    BY <2>0, <2>1 DEF NeverLostInv
  <2>2. ASSUME NEW bad \in ReadErrors, configRestore(bad) PROVE NeverLostInv'
    <3>1. bad = {}
      BY <2>2
    <3>2. acked => Chosen({}) # -1 /\ CrcOk(flash[Chosen({})])
      BY <2>2, ChosenFacts DEF ChosenIsGood, configRestore, NeverLostInv
    <3>. QED
      BY <2>2, <3>1, <3>2 DEF configRestore, NeverLostInv
  <2>3. ASSUME NEW c \in Configs, Edit(c) PROVE NeverLostInv'
    BY <2>1, <2>3 DEF Edit, history
  <2>4. CASE BeginSave
    BY <2>1, <2>4 DEF BeginSave
  <2>5. CASE EraseSecondary
    BY <2>0, <2>1, <2>5 DEF EraseSecondary, return
  <2>6. CASE WriteSecondary
    BY <2>0, <2>1, <2>6 DEF WriteSecondary, return
  <2>7. CASE SealSecondary
    BY <2>0, <2>1, <2>7 DEF SealSecondary, return
  <2>8. CASE ErasePrimary
    <3>1. CrcOk(flash[Secondary])
      BY <2>8 DEF ErasePrimary, NeverLostInv, StepInv, Sealed, CrcOk
    <3>2. flash_pri' = Secondary /\ flash'[Secondary] = flash[Secondary] /\ pc' # "boot"
      BY <2>0, <2>8 DEF ErasePrimary, return
    <3>. QED
      BY <3>1, <3>2 DEF NeverLostInv
  <2>9. CASE WriteBackup
    BY <2>0, <2>1, <2>9 DEF WriteBackup, return, NeverLostInv, StepInv
  <2>10. CASE SealBackup
    BY <2>0, <2>1, <2>10 DEF SealBackup, return, NeverLostInv, StepInv
  <2>11. CASE PowerLoss
    <3>1. acked => CrcOk(flash'[0]) \/ CrcOk(flash'[1])
      <4>1. CASE pc = "erase1"
        BY <2>0, <2>11, <4>1 DEF PowerLoss, NeverLostInv, StepInv, Sealed, CrcOk
      <4>2. CASE pc # "erase1"
        BY <2>0, <2>11, <4>2 DEF PowerLoss, NeverLostInv
      <4>. QED
        BY <4>1, <4>2
    <3>2. Chosen({})' = -1 => ~CrcOk(flash'[0]) /\ ~CrcOk(flash'[1])
      BY DEF Chosen, selectPrimary, Read
    <3>. QED
      BY <2>11, <3>1, <3>2 DEF PowerLoss, NeverLostInv, history
  <2>12. CASE UNCHANGED vars
    BY <2>12 DEF vars, NeverLostInv, Chosen, selectPrimary, Read
  <2>. QED
    BY <2>2, <2>3, <2>4, <2>5, <2>6, <2>7, <2>8, <2>9, <2>10, <2>11, <2>12 DEF Next
<1>3. TypeOK /\ NeverLostInv => NeverLost
  BY ChosenFacts DEF ChosenIsGood, NeverLostInv, NeverLost, TypeOK
<1>. QED
  BY <1>1, <1>2, <1>3, TypeCorrect, StepsInOrder, PTL DEF Spec

-----------------------------------------------------------------------------
(* Durable *)

(* What the primary and the secondary hold decides what a restart finds.   *)
LEMMA RestoredIsRestorable == TypeOK /\ PrimaryInv /\ SecondaryInv => Durable
<1>. SUFFICES ASSUME TypeOK, PrimaryInv, SecondaryInv PROVE Durable
  OBVIOUS
<1>0. flash_pri \in {0, 1} /\ Secondary \in {0, 1} /\ {flash_pri, Secondary} = {0, 1}
  BY DEF TypeOK
<1>1. CASE Chosen({}) = -1
  BY <1>0, <1>1, ChosenFacts DEF ChosenIsGood, PrimaryInv, Durable
<1>2. CASE Chosen({}) = flash_pri
  BY <1>0, <1>2, ChosenFacts DEF ChosenIsGood, PrimaryInv, Durable
<1>3. CASE Chosen({}) = Secondary /\ Secondary # flash_pri
  BY <1>0, <1>3, ChosenFacts DEF ChosenIsGood, SecondaryInv, Durable
<1>. QED
  BY <1>0, <1>1, <1>2, <1>3, ChosenFacts DEF ChosenIsGood

(* Whenever the store is on, both sectors are as RestoredIsRestorable asks. *)
LEMMA BothSectorsFine ==
    ASSUME TypeOK, DurableInv, pc # "boot"
    PROVE  PrimaryInv /\ SecondaryInv
<1>1. CASE pc \in {"idle", "erase2"}
  BY <1>1 DEF DurableInv
<1>2. CASE pc \in {"write2", "seal2", "erase1"}
  BY <1>2 DEF DurableInv, StepInv, SecondaryInv, SavingInv, Saving, Erased, Unsealed, Sealed, CrcOk
<1>3. CASE pc \in {"write1", "seal1"}
  BY <1>3 DEF DurableInv, StepInv, PrimaryInv, SecondaryInv, SavingInv, Saving, Erased, Unsealed,
              CrcOk
<1>. QED
  BY <1>1, <1>2, <1>3 DEF TypeOK, Saving

(* Durable, after every step that leaves the store running or off: the     *)
(* strengthening DurableInv is preserved unless a failed erase keeps the   *)
(* old primary readable in a session that had already saved.               *)
THEOREM DurableHolds ==
    ASSUME ReadErrors \subseteq {{}}, ~(EraseFailKeeps /\ ResaveAfterAck)
    PROVE  Spec => []Durable
<1>1. Init => DurableInv
  BY DEF Init, DurableInv, StepInv, SavingInv, SeqInv, Saving, Durable, Restored, Chosen,
         selectPrimary, Read, Erased, CrcOk
<1>0. /\ TypeOK' => ChosenIsGood'
      /\ TypeOK' /\ PrimaryInv' /\ SecondaryInv' => Durable'
  BY ChosenFacts, RestoredIsRestorable, PTL
<1>2. TypeOK /\ DurableInv /\ StepInv' /\ TypeOK' /\ [Next]_vars => DurableInv'
  <2>. SUFFICES ASSUME TypeOK, DurableInv, StepInv', TypeOK', [Next]_vars PROVE DurableInv'
    OBVIOUS
  <2>0. /\ flash_pri \in {0, 1} /\ Secondary \in {0, 1} /\ Secondary # flash_pri
        /\ Other(Secondary) = flash_pri
        /\ flash \in [{0, 1} -> Contents]
        /\ flash[flash_pri] \in Contents /\ flash[Secondary] \in Contents
        /\ seq = flashConfig.seq + 1 /\ flashConfig.seq \in Nat
    BY DEF TypeOK, seq
  <2>1. ASSUME NEW bad \in ReadErrors, configRestore(bad) PROVE DurableInv'
    <3>1. bad = {}
      BY <2>1
    <3>2. /\ pc' = "idle" /\ ~ackedNow' /\ UNCHANGED flash
          /\ flash_pri' = IF Chosen({}) = -1 THEN 0 ELSE Chosen({})
          /\ flashConfig' = Restored({}) /\ restorable' = {Restored({}).cfg}
      BY <2>1, <3>1 DEF configRestore
    <3>3. Chosen({})' = Chosen({})
      BY <3>2 DEF Chosen, selectPrimary, Read
    <3>4. PrimaryInv' /\ SecondaryInv' /\ SeqInv'
      <4>1. CASE Chosen({}) = -1
        BY <3>2, <4>1, ChosenFacts DEF ChosenIsGood, PrimaryInv, SecondaryInv, SeqInv
      <4>2. CASE Chosen({}) # -1
        BY <3>2, <3>3, <4>2, ChosenFacts DEF ChosenIsGood, PrimaryInv, SecondaryInv, SeqInv
      <4>. QED
        BY <4>1, <4>2
    <3>. QED
      BY <3>2, <3>4 DEF DurableInv, SavingInv, Saving
  <2>2. ASSUME NEW c \in Configs, Edit(c) PROVE DurableInv'
    <3>1. flashConfig'.seq = flashConfig.seq
      BY <2>2 DEF Edit, TypeOK
    <3>2. Chosen({})' = Chosen({})
      BY <2>2 DEF Edit, Chosen, selectPrimary, Read
    <3>. QED
      BY <2>2, <3>1, <3>2 DEF Edit, history, DurableInv, PrimaryInv, SecondaryInv, SavingInv,
                            SeqInv, Saving
  <2>3. CASE BeginSave
    <3>1. Chosen({})' = Chosen({})
      BY <2>3 DEF BeginSave, Chosen, selectPrimary, Read
    <3>. QED
      BY <2>3, <3>1 DEF BeginSave, DurableInv, PrimaryInv, SecondaryInv, SavingInv, SeqInv
  (* A step that leaves the primary alone and, if the save gives up, leaves *)
  (* in the secondary nothing, or the configuration being saved.            *)
  <2>4. ASSUME pc \in {"erase2", "write2", "seal2"},
               UNCHANGED <<flash_pri, flashConfig, restorable, ackedNow>>,
               flash'[flash_pri] = flash[flash_pri],
               pc' \in {"idle", "write2", "seal2", "erase1"},
               pc' # "idle" \/ (CrcOk(flash'[Secondary]) => flash'[Secondary].cfg \in restorable)
                            \/ (flash' = flash /\ pc = "erase2")
        PROVE  DurableInv'
    <3>1. PrimaryInv' /\ SeqInv'
      BY <2>4 DEF DurableInv, PrimaryInv, SeqInv
    <3>2. pc' = "idle" => SecondaryInv'
      <4>1. CASE flash' = flash /\ pc = "erase2"
        <5>1. Chosen({})' = Chosen({})
          BY <4>1 DEF Chosen, selectPrimary, Read
        <5>. QED
          BY <2>4, <4>1, <5>1 DEF DurableInv, SecondaryInv
      <4>2. CASE CrcOk(flash'[Secondary]) => flash'[Secondary].cfg \in restorable
        BY <2>4, <4>2 DEF SecondaryInv
      <4>. QED
        BY <2>4, <4>1, <4>2
    <3>. QED
      BY <2>4, <3>1, <3>2 DEF DurableInv, SavingInv, Saving
  <2>5. CASE EraseSecondary
    <3>1. CASE flash' = [flash EXCEPT ![Secondary] = Erased] /\ pc' = "write2"
      BY <2>0, <2>4, <2>5, <3>1 DEF EraseSecondary, return
    <3>2. ASSUME NEW x \in EraseFailed(flash[Secondary]),
                 flash' = [flash EXCEPT ![Secondary] = x], return(FALSE)
          PROVE  DurableInv'
      <4>1. CASE x = Torn
        BY <2>0, <2>4, <2>5, <3>2, <4>1, ReturnFacts DEF EraseSecondary, Torn, CrcOk
      <4>2. CASE x = flash[Secondary]
        <5>1. flash' = flash
          BY <2>0, <3>2, <4>2
        <5>. QED
          BY <2>4, <2>5, <3>2, <5>1, ReturnFacts DEF EraseSecondary
      <4>. QED
        BY <3>2, <4>1, <4>2, EraseOutcome
    <3>. QED
      BY <2>5, <3>1, <3>2 DEF EraseSecondary
  <2>6. CASE WriteSecondary
    <3>1. flash[Secondary] = Erased
      BY <2>6 DEF WriteSecondary, DurableInv, StepInv
    <3>2. ASSUME NEW x \in WriteFailed(flash[Secondary]),
                 flash' = [flash EXCEPT ![Secondary] = x], return(FALSE)
          PROVE  DurableInv'
      <4>1. ~CrcOk(x)
        BY <3>1, <3>2 DEF WriteFailed, Write, Erased, Torn, Unsealed, CrcOk
      <4>2. /\ pc' = "idle" /\ UNCHANGED <<restorable, ackedNow>>
            /\ flash'[Secondary] = x /\ flash'[flash_pri] = flash[flash_pri]
        BY <2>0, <3>2, ReturnFacts
      <4>3. pc = "write2" /\ UNCHANGED <<flash_pri, flashConfig>>
        BY <2>6 DEF WriteSecondary
      <4>. QED
        BY <2>4, <4>1, <4>2, <4>3
    <3>. QED
      BY <2>0, <2>4, <2>6, <3>2 DEF WriteSecondary
  <2>7. CASE SealSecondary
    <3>1. flash[Secondary] = Unsealed(flashConfig.cfg, seq) /\ flashConfig.cfg \in restorable
      BY <2>7 DEF SealSecondary, DurableInv, StepInv, SavingInv, Saving
    <3>2. ASSUME NEW x \in SealFailed(flash[Secondary]),
                 flash' = [flash EXCEPT ![Secondary] = x], return(FALSE)
          PROVE  DurableInv'
      <4>1. CrcOk(x) => x.cfg \in restorable
        BY <3>1, <3>2 DEF SealFailed, Seal, Torn, Unsealed, Sealed, CrcOk
      <4>2. /\ pc' = "idle" /\ UNCHANGED <<restorable, ackedNow>>
            /\ flash'[Secondary] = x /\ flash'[flash_pri] = flash[flash_pri]
        BY <2>0, <3>2, ReturnFacts
      <4>3. pc = "seal2" /\ UNCHANGED <<flash_pri, flashConfig>>
        BY <2>7 DEF SealSecondary
      <4>. QED
        BY <2>4, <4>1, <4>2, <4>3
    <3>. QED
      BY <2>0, <2>4, <2>7, <3>2 DEF SealSecondary
  <2>8. CASE ErasePrimary
    <3>1. /\ flash[Secondary] = Sealed(flashConfig.cfg, seq) /\ flashConfig.cfg \in restorable
          /\ ResaveAfterAck \/ ~ackedNow
          /\ ~ackedNow /\ CrcOk(flash[flash_pri]) => flash[flash_pri].seq = flashConfig.seq
      BY <2>8 DEF ErasePrimary, DurableInv, StepInv, SavingInv, SeqInv, Saving
    <3>2. /\ flash_pri' = Secondary /\ Secondary' = flash_pri /\ UNCHANGED flashConfig
          /\ flash'[Secondary] = Sealed(flashConfig.cfg, seq)
          /\ flashConfig.cfg \in restorable'
      BY <2>0, <2>8, <3>1 DEF ErasePrimary, return
    <3>3. CASE flash' = [flash EXCEPT ![flash_pri] = Erased] /\ pc' = "write1"
      BY <2>8, <3>1, <3>2, <3>3 DEF ErasePrimary, return, DurableInv, SavingInv, SeqInv, Saving
    <3>4. ASSUME NEW x \in EraseFailed(flash[flash_pri]),
                 flash' = [flash EXCEPT ![flash_pri] = x], return(TRUE)
          PROVE  DurableInv'
      <4>1. pc' = "idle" /\ ackedNow' /\ flash'[flash_pri] = x
        BY <2>0, <3>4 DEF return
      <4>2. PrimaryInv'
        BY <3>2 DEF PrimaryInv, Sealed, CrcOk
      <4>3. SecondaryInv'
        <5>1. CASE x = Torn
          BY <2>0, <3>2, <4>1, <5>1 DEF SecondaryInv, Torn, CrcOk
        <5>2. CASE x = flash[flash_pri] /\ EraseFailKeeps
          <6>1. CrcOk(flash[flash_pri]) => flash[flash_pri].seq < seq
            BY <2>0, <3>1, <5>2
          <6>2. flash' = flash
            BY <2>0, <3>4, <5>2
          <6>3. CrcOk(flash[flash_pri]) => Chosen({})' = Secondary
            BY <2>0, <3>1, <6>1, <6>2
               DEF Chosen, selectPrimary, Read, Sealed, CrcOk, Contents, Erased, Torn
          <6>. QED
            BY <2>0, <3>1, <3>2, <6>2, <6>3 DEF SecondaryInv, Sealed, CrcOk
        <5>. QED
          BY <3>4, <5>1, <5>2, EraseOutcome
      <4>. QED
        BY <4>1, <4>2, <4>3 DEF DurableInv, SavingInv, SeqInv, Saving
    <3>. QED
      BY <2>8, <3>3, <3>4 DEF ErasePrimary
  (* The last two steps: the primary holds the new configuration, and so    *)
  (* does the secondary if it holds anything.                               *)
  <2>9. ASSUME pc \in {"write1", "seal1"}, return(TRUE),
               UNCHANGED <<flash_pri, flashConfig>>, flash'[flash_pri] = flash[flash_pri],
               CrcOk(flash'[Secondary]) => flash'[Secondary].cfg = flashConfig.cfg
        PROVE  DurableInv'
    <3>1. pc' = "idle" /\ ackedNow' /\ restorable' = {flashConfig.cfg}
      BY <2>9 DEF return
    <3>2. PrimaryInv' /\ SecondaryInv'
      BY <2>9, <3>1 DEF DurableInv, StepInv, PrimaryInv, SecondaryInv
    <3>. QED
      BY <3>1, <3>2 DEF DurableInv, SavingInv, SeqInv, Saving
  <2>10. CASE WriteBackup
    <3>1. flash[Secondary] = Erased
      BY <2>10 DEF WriteBackup, DurableInv, StepInv
    <3>2. CASE pc' = "seal1" /\ UNCHANGED <<restorable, acked, ackedNow>>
      BY <2>10, <3>2 DEF WriteBackup, DurableInv, SavingInv, SeqInv, Saving
    <3>3. ASSUME NEW x \in WriteFailed(flash[Secondary]),
                 flash' = [flash EXCEPT ![Secondary] = x], return(TRUE)
          PROVE  DurableInv'
      <4>1. ~CrcOk(x)
        BY <3>1, <3>3 DEF WriteFailed, Write, Erased, Torn, Unsealed, CrcOk
      <4>. QED
        BY <2>0, <2>9, <2>10, <3>3, <4>1 DEF WriteBackup
    <3>. QED
      BY <2>10, <3>2, <3>3 DEF WriteBackup
  <2>11. CASE SealBackup
    <3>1. flash[Secondary] = Unsealed(flashConfig.cfg, seq)
      BY <2>11 DEF SealBackup, DurableInv, StepInv
    <3>2. PICK x \in SealFailed(flash[Secondary]) : flash' = [flash EXCEPT ![Secondary] = x]
      BY <2>11 DEF SealBackup
    <3>3. CrcOk(x) => x.cfg = flashConfig.cfg
      BY <3>1, <3>2 DEF SealFailed, Seal, Torn, Unsealed, Sealed, CrcOk
    <3>. QED
      BY <2>0, <2>9, <2>11, <3>2, <3>3 DEF SealBackup
  <2>12. CASE PowerLoss
    <3>1. PrimaryInv /\ SecondaryInv
      BY <2>12, BothSectorsFine DEF PowerLoss
    <3>2. /\ pc' = "boot" /\ UNCHANGED <<flash_pri, flashConfig, restorable, ackedNow>>
      BY <2>12 DEF PowerLoss, history
    <3>3. Durable'
      <4>1. CASE UNCHANGED flash
        BY <3>1, <3>2, <4>1, RestoredIsRestorable
           DEF Durable, Restored, Chosen, selectPrimary, Read
      <4>2. CASE pc = "erase1" /\ ~UNCHANGED flash
        <5>1. /\ ~CrcOk(flash'[flash_pri]) /\ flash'[Secondary] = flash[Secondary]
              /\ CrcOk(flash[Secondary]) /\ flash[Secondary].cfg \in restorable
          BY <2>0, <2>12, <4>2
             DEF PowerLoss, Interrupted, DurableInv, StepInv, SavingInv, Saving,
                 Erased, Torn, Sealed, CrcOk
        <5>. QED
          BY <2>0, <3>2, <5>1, <1>0 DEF ChosenIsGood, Durable
      <4>3. CASE pc # "erase1" /\ ~UNCHANGED flash
        <5>1. PICK x \in Interrupted : flash' = [flash EXCEPT ![Secondary] = x]
          BY <2>12, <4>3 DEF PowerLoss
        <5>2. CrcOk(x) => x.cfg \in restorable
          BY <4>3, <5>1
             DEF Interrupted, WriteFailed, SealFailed, Write, Seal, DurableInv, StepInv,
                 SavingInv, Saving, Erased, Torn, Unsealed, Sealed, CrcOk
        <5>3. PrimaryInv' /\ SecondaryInv'
          BY <2>0, <3>1, <3>2, <5>1, <5>2 DEF PrimaryInv, SecondaryInv
        <5>. QED
          BY <5>3, <1>0
      <4>. QED
        BY <4>1, <4>2, <4>3
    <3>. QED
      BY <3>2, <3>3 DEF DurableInv, SavingInv, SeqInv, Saving
  <2>13. CASE UNCHANGED vars
    BY <2>13 DEF vars, DurableInv, Durable, PrimaryInv, SecondaryInv, SavingInv, SeqInv,
                 Restored, Chosen, selectPrimary, Read
  <2>. QED
    BY <2>1, <2>2, <2>3, <2>5, <2>6, <2>7, <2>8, <2>10, <2>11, <2>12, <2>13 DEF Next
<1>3. TypeOK /\ DurableInv => Durable
  BY BothSectorsFine, RestoredIsRestorable DEF DurableInv
<1>. QED
  BY <1>1, <1>2, <1>3, TypeCorrect, StepsInOrder, PTL DEF Spec

-----------------------------------------------------------------------------
(* The store implements the register: restoring, editing, starting a save   *)
(* and its return are the register's steps, and every flash operation in   *)
(* between is a stutter.  Durable is what makes restoring a Restart step.  *)
THEOREM ImplementsRegister ==
    ASSUME ReadErrors \subseteq {{}}, ~(EraseFailKeeps /\ ResaveAfterAck)
    PROVE  Spec => RegisterSpec
<1>. USE DEF Register!Next, Register!vars
<1>1. Init => Register!Init
  BY DEF Init, Register!Init
<1>2. TypeOK /\ Durable /\ [Next]_vars => [Register!Next]_(Register!vars)
  <2>. SUFFICES ASSUME TypeOK, Durable, [Next]_vars PROVE [Register!Next]_(Register!vars)
    OBVIOUS
  <2>1. ASSUME NEW bad \in ReadErrors, configRestore(bad) PROVE Register!Restart
    <3>1. bad = {}
      BY <2>1
    <3>. QED
      BY <2>1, <3>1 DEF configRestore, Register!Restart, Durable
  <2>2. ASSUME NEW c \in Configs, Edit(c) PROVE Register!Edit
    <3>1. flashConfig'.cfg = c
      BY <2>2 DEF Edit, TypeOK
    <3>. QED
      BY <2>2, <3>1 DEF Edit, history, Register!Edit
  <2>3. ASSUME BeginSave PROVE Register!BeginSave
    BY <2>3 DEF BeginSave, Register!BeginSave
  <2>4. ASSUME pc \in Saving, UNCHANGED flashConfig, return(TRUE)
        PROVE  Register!SaveReturnsTrue
    BY <2>4, ReturnFacts DEF Saving, Register!SaveReturnsTrue
  <2>5. ASSUME pc \in Saving, UNCHANGED flashConfig, return(FALSE)
        PROVE  Register!SaveReturnsFalse
    BY <2>5, ReturnFacts DEF Saving, Register!SaveReturnsFalse
  <2>6. ASSUME pc \in Saving, pc' \in Saving, UNCHANGED <<flashConfig, restorable>>
        PROVE  UNCHANGED Register!vars
    BY <2>6 DEF Saving
  <2>7. CASE EraseSecondary
    BY <2>5, <2>6, <2>7 DEF EraseSecondary, Saving
  <2>8. CASE WriteSecondary
    BY <2>5, <2>6, <2>8 DEF WriteSecondary, Saving
  <2>9. CASE SealSecondary
    BY <2>5, <2>6, <2>9 DEF SealSecondary, Saving
  <2>10. CASE ErasePrimary
    BY <2>4, <2>6, <2>10 DEF ErasePrimary, Saving
  <2>11. CASE WriteBackup
    BY <2>4, <2>6, <2>11 DEF WriteBackup, Saving
  <2>12. CASE SealBackup
    BY <2>4, <2>12 DEF SealBackup, Saving
  <2>13. CASE PowerLoss
    BY <2>13 DEF PowerLoss, history, Register!PowerLoss
  <2>14. CASE UNCHANGED vars
    BY <2>14 DEF vars
  <2>. QED
    BY <2>1, <2>2, <2>3, <2>7, <2>8, <2>9, <2>10, <2>11, <2>12, <2>13, <2>14 DEF Next
<1>. QED
  BY <1>1, <1>2, TypeCorrect, DurableHolds, PTL DEF Spec, RegisterSpec, Register!Spec

-----------------------------------------------------------------------------
(* The backup *)

(* What the second copy is for, whatever a failed erase leaves and however  *)
(* often a setting is saved, as long as the reads of both sectors do not    *)
(* fail at the same restart: after a save that wrote both copies, each of   *)
(* them alone brings the saved configuration back.                          *)
THEOREM BackupCoversReadHolds ==
    ASSUME Sectors \notin ReadErrors
    PROVE  Spec => []BackupCoversRead
<1>1. Init => BackupInv
  BY DEF Init, BackupInv
<1>2. TypeOK /\ StepInv /\ BackupInv /\ [Next]_vars => BackupInv'
  <2>. SUFFICES ASSUME TypeOK, StepInv, BackupInv, [Next]_vars PROVE BackupInv'
    OBVIOUS
  <2>0. /\ flash_pri \in {0, 1} /\ Secondary \in {0, 1} /\ Secondary # flash_pri
        /\ flash \in [{0, 1} -> Contents] /\ backedUp \in BOOLEAN
    BY DEF TypeOK
  <2>1. ASSUME NEW bad \in ReadErrors, configRestore(bad) PROVE BackupInv'
    <3>. SUFFICES ASSUME backedUp' PROVE flash[0].cfg \in restorable'
      BY <2>1 DEF configRestore, BackupInv
    <3>1. bad \subseteq {0, 1} /\ bad # {0, 1}
      BY ConfigAssumption
    <3>2. /\ flash[0].cfg = flash[1].cfg
          /\ \A s \in {0, 1} : CrcOk(flash[s]) /\ flash[s].seq \in Nat /\ flash[s].seq > 0
      BY <2>0, <2>1, ContentsFacts DEF configRestore, BackupInv
    <3>3. Restored(bad).cfg = flash[0].cfg
      <4>1. CASE 0 \in bad
        <5>1. Read(bad, 0).seq = 0 /\ Read(bad, 1) = flash[1] /\ CrcOk(Read(bad, 0))
          BY <3>1, <4>1 DEF Read, Sealed, CrcOk
        <5>2. Chosen(bad) = 1
          BY <3>2, <5>1 DEF Chosen, selectPrimary
        <5>. QED BY <3>2, <5>1, <5>2 DEF Restored
      <4>2. CASE 1 \in bad
        <5>1. Read(bad, 1).seq = 0 /\ Read(bad, 0) = flash[0]
          BY <3>1, <4>2 DEF Read, Sealed
        <5>2. Chosen(bad) = 0
          BY <3>2, <5>1 DEF Chosen, selectPrimary
        <5>. QED BY <3>2, <5>1, <5>2 DEF Restored
      <4>3. CASE 0 \notin bad /\ 1 \notin bad
        <5>1. Read(bad, 0) = flash[0] /\ Read(bad, 1) = flash[1]
          BY <4>3 DEF Read
        <5>2. Chosen(bad) \in {0, 1}
          BY <3>2, <5>1 DEF Chosen, selectPrimary
        <5>. QED BY <3>2, <5>1, <5>2 DEF Restored
      <4>. QED BY <4>1, <4>2, <4>3
    <3>. QED BY <2>1, <3>3 DEF configRestore
  <2>2. ASSUME NEW c \in Configs, Edit(c) PROVE BackupInv'
    BY <2>2 DEF Edit, history, BackupInv
  <2>3. CASE BeginSave
    BY <2>3 DEF BeginSave, BackupInv
  <2>4. ASSUME pc \in Saving, UNCHANGED backedUp, pc' \notin {"write1", "seal1"} PROVE BackupInv'
    BY <2>4 DEF BackupInv, Saving
  <2>5. CASE EraseSecondary
    BY <2>4, <2>5 DEF EraseSecondary, return, Saving
  <2>6. CASE WriteSecondary
    BY <2>4, <2>6 DEF WriteSecondary, return, Saving
  <2>7. CASE SealSecondary
    BY <2>4, <2>7 DEF SealSecondary, return, Saving
  <2>8. CASE ErasePrimary
    <3>1. pc' = "write1" => flash'[flash_pri'].seq > 0
      <4>1. flash[Secondary].seq = flashConfig.seq + 1 /\ flashConfig.seq \in Nat
        BY <2>8 DEF ErasePrimary, StepInv, Sealed, seq, TypeOK
      <4>2. pc' = "write1" => flash'[Secondary] = flash[Secondary] /\ flash_pri' = Secondary
        BY <2>0, <2>8 DEF ErasePrimary, return
      <4>. QED BY <4>1, <4>2
    <3>. QED
      BY <2>8, <3>1 DEF ErasePrimary, return, BackupInv
  <2>9. CASE WriteBackup
    <3>1. flash'[flash_pri'] = flash[flash_pri]
      BY <2>0, <2>9 DEF WriteBackup
    <3>. QED
      BY <2>9, <3>1 DEF WriteBackup, return, BackupInv
  <2>10. CASE SealBackup
    <3>1. PICK x \in SealFailed(flash[Secondary]) :
             flash' = [flash EXCEPT ![Secondary] = x] /\ backedUp' = CrcOk(x)
      BY <2>10 DEF SealBackup
    <3>2. pc' = "idle" /\ restorable' = {flashConfig.cfg} /\ UNCHANGED flash_pri
      BY <2>10 DEF SealBackup, return
    <3>3. /\ flash[Secondary] = Unsealed(flashConfig.cfg, seq)
          /\ CrcOk(flash[flash_pri]) /\ flash[flash_pri].cfg = flashConfig.cfg
          /\ flash[flash_pri].seq > 0 /\ seq > 0
      BY <2>10 DEF SealBackup, StepInv, BackupInv, TypeOK, seq
    <3>4. CrcOk(x) => x = Sealed(flashConfig.cfg, seq)
      BY <3>3 DEF SealFailed, Seal, Unsealed, Sealed, Torn, CrcOk
    <3>5. flash'[Secondary] = x /\ flash'[flash_pri] = flash[flash_pri]
      BY <2>0, <3>1
    <3>6. \A s \in {0, 1} : s = Secondary \/ s = flash_pri
      BY <2>0
    <3>7. CrcOk(x) => \A s \in {0, 1} : /\ CrcOk(flash'[s]) /\ flash'[s].seq > 0
                                        /\ flash'[s].cfg = flashConfig.cfg
      BY <3>3, <3>4, <3>5, <3>6 DEF Sealed
    <3>. QED BY <3>1, <3>2, <3>7 DEF BackupInv
  <2>11. CASE PowerLoss
    <3>1. pc' = "boot" /\ UNCHANGED <<restorable, backedUp>>
      BY <2>11 DEF PowerLoss, history
    <3>2. backedUp => UNCHANGED flash
      BY <2>11 DEF PowerLoss, Interrupted, BackupInv
    <3>. QED BY <3>1, <3>2 DEF BackupInv
  <2>12. CASE UNCHANGED vars
    BY <2>12 DEF vars, BackupInv
  <2>. QED
    BY <2>1, <2>2, <2>3, <2>5, <2>6, <2>7, <2>8, <2>9, <2>10, <2>11, <2>12 DEF Next
<1>3. TypeOK /\ BackupInv => BackupCoversRead
  <2>. SUFFICES ASSUME TypeOK, BackupInv, backedUp, NEW s \in Sectors
                PROVE  Restored({s}).cfg \in restorable
    BY DEF BackupCoversRead
  <2>1. /\ flash[0].cfg = flash[1].cfg /\ flash[0].cfg \in restorable
        /\ \A t \in {0, 1} : CrcOk(flash[t]) /\ flash[t].seq \in Nat /\ flash[t].seq > 0
    BY ContentsFacts DEF BackupInv, TypeOK
  <2>2. /\ Read({s}, s).seq = 0 /\ CrcOk(Read({s}, s)) /\ Read({s}, Other(s)) = flash[Other(s)]
    BY DEF Read, Sealed, CrcOk
  <2>3. Chosen({s}) = Other(s)
    BY <2>1, <2>2 DEF Chosen, selectPrimary
  <2>. QED BY <2>1, <2>2, <2>3 DEF Restored
<1>. QED
  BY <1>1, <1>2, <1>3, TypeCorrect, StepsInOrder, PTL DEF Spec
=============================================================================
