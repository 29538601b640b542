---------------------------- MODULE ConfigStore ----------------------------
(***************************************************************************)
(* The configuration store of meta-id/config.c: two flash sectors, one the *)
(* primary, and a save that rewrites them one after the other so that a    *)
(* power loss between any two flash operations leaves a usable copy.       *)
(*                                                                         *)
(* Every spi_flash call of configSave is a step of its own, because the    *)
(* power may fail between any two of them and during each.  A sector is    *)
(* abstracted to what selectPrimary can tell of it: whether its CRC is     *)
(* right, its sequence number and the configuration in it.                 *)
(***************************************************************************)
EXTENDS Integers

CONSTANTS
    Configs,         \* the configurations the handlers can put in flashConfig
    Default,         \* flashDefault
    Zero,            \* the all-zero sector configRestore makes of a failed read
    DefaultSeq,      \* flashDefault.seq
    MaxSeq,          \* bound on the sequence numbers explored
    EraseFailKeeps,  \* may a failed erase leave the sector as it was?
    ResaveAfterAck,  \* may a handler save again after a save returned true?
    ReadErrors       \* the sets of sectors whose read may fail at one restart

ASSUME ConfigAssumption ==
    /\ Default \in Configs
    /\ Zero \notin Configs
    /\ DefaultSeq \in Nat \ {0}
    /\ MaxSeq \in Nat
    /\ EraseFailKeeps \in BOOLEAN
    /\ ResaveAfterAck \in BOOLEAN
    /\ ReadErrors \in SUBSET SUBSET {0, 1}

VARIABLES
    flash,        \* the contents of the two sectors
    flash_pri,    \* the primary sector
    flashConfig,  \* the configuration in RAM, with its sequence number
    pc,           \* "boot", "idle" or the next flash operation of configSave
    \* history variables: what callers of configSave have been told
    restorable,   \* the configurations a restart may legitimately find
    acked,        \* has some save ever returned true?
    ackedNow,     \* has a save returned true since the last restart?
    backedUp      \* did the last save write both copies?

vars == <<flash, flash_pri, flashConfig, pc, restorable, acked, ackedNow, backedUp>>
history == <<restorable, acked, ackedNow, backedUp>>

Sectors == {0, 1}
Other(s) == 1 - s

(* The contents of a sector.  A sealed one has the sequence number its CRC *)
(* was computed for; an unsealed one still has 0xffffffff in its place.    *)
Sealed(c, n)   == [kind |-> "sealed", cfg |-> c, seq |-> n]
Unsealed(c, n) == [kind |-> "unsealed", cfg |-> c, seq |-> n]
Erased == [kind |-> "erased", cfg |-> Zero, seq |-> 0]
Torn   == [kind |-> "torn", cfg |-> Zero, seq |-> 0]

Contents ==
    [kind : {"sealed", "unsealed"}, cfg : Configs \cup {Zero}, seq : Nat] \cup {Erased, Torn}

CrcOk(x) == x.kind = "sealed"

\* The flash operations of configSave, in their order.
Saving == {"erase2", "write2", "seal2", "erase1", "write1", "seal1"}

TypeOK ==
    /\ flash \in [Sectors -> Contents]
    /\ flash_pri \in Sectors
    /\ flashConfig \in [cfg : Configs \cup {Zero}, seq : Nat]
    /\ pc \in {"boot", "idle"} \cup Saving
    /\ restorable \in SUBSET (Configs \cup {Zero})
    /\ acked \in BOOLEAN /\ ackedNow \in BOOLEAN /\ backedUp \in BOOLEAN

-----------------------------------------------------------------------------
(* Restoring *)

\* A mutant: sector 0 whenever it is good.
selectFirst(f0, f1) == IF CrcOk(f0) THEN 0 ELSE IF CrcOk(f1) THEN 1 ELSE -1

\* Which sector selectPrimary prefers, -1 if neither has a right CRC.
selectPrimary(f0, f1) ==
    IF CrcOk(f0)
    THEN IF ~CrcOk(f1) \/ f0.seq >= f1.seq THEN 0 ELSE 1
    ELSE IF CrcOk(f1) THEN 1 ELSE -1

\* What configRestore has in its buffer: a read that fails is cleared to
\* zeros, and the CRC of zeros is the zero found in the CRC field.
Read(bad, s) == IF s \in bad THEN Sealed(Zero, 0) ELSE flash[s]

Chosen(bad) == selectPrimary(Read(bad, 0), Read(bad, 1))

\* What configRestore leaves in flashConfig.
Restored(bad) ==
    IF Chosen(bad) = -1
    THEN [cfg |-> Default, seq |-> DefaultSeq]
    ELSE [cfg |-> Read(bad, Chosen(bad)).cfg, seq |-> Read(bad, Chosen(bad)).seq]

configRestore(bad) ==
    /\ pc = "boot"
    /\ flash_pri' = IF Chosen(bad) = -1 THEN 0 ELSE Chosen(bad)
    /\ flashConfig' = Restored(bad)
    /\ pc' = "idle"
    /\ restorable' = {Restored(bad).cfg}
    /\ ackedNow' = FALSE
    /\ UNCHANGED <<flash, acked, backedUp>>

-----------------------------------------------------------------------------
(* Saving *)

seq == flashConfig.seq + 1  \* flashConfig.seq itself is never advanced

\* NOR flash: a whole-sector write needs an erased sector, and the write of
\* the sequence number completes a sector written whole.
Write(x) == IF x = Erased THEN Unsealed(flashConfig.cfg, seq) ELSE Torn
Seal(x)  == IF x.kind = "unsealed" THEN Sealed(x.cfg, x.seq) ELSE Torn

\* What an operation that reports an error may have left behind.
EraseFailed(x) == {Torn} \cup (IF EraseFailKeeps THEN {x} ELSE {})
WriteFailed(x) == {x, Torn, Write(x)}
SealFailed(x)  == {x, Torn, Seal(x)}

Secondary == Other(flash_pri)

\* A mutant: a failed save reported as a good one.
returnTrue(ok) ==
    /\ pc' = "idle"
    /\ restorable' = {flashConfig.cfg}
    /\ acked' = TRUE
    /\ ackedNow' = TRUE

return(ok) ==
    /\ pc' = "idle"
    /\ restorable' = IF ok THEN {flashConfig.cfg} ELSE restorable
    /\ acked' = (acked \/ ok)
    /\ ackedNow' = (ackedNow \/ ok)

\* A handler changes a setting in flashConfig.
Edit(c) ==
    /\ pc = "idle"
    /\ flashConfig' = [flashConfig EXCEPT !.cfg = c]
    /\ UNCHANGED <<flash, flash_pri, pc, history>>

\* A handler calls configSave.
BeginSave ==
    /\ pc = "idle"
    /\ flashConfig.seq < MaxSeq
    /\ ResaveAfterAck \/ ~ackedNow
    /\ pc' = "erase2"
    /\ restorable' = restorable \cup {flashConfig.cfg}
    /\ backedUp' = FALSE
    /\ UNCHANGED <<flash, flash_pri, flashConfig, acked, ackedNow>>

\* A mutant: the save starts with the sector in use.
EraseInUse ==
    /\ pc = "erase2"
    /\ flash' = [flash EXCEPT ![flash_pri] = Erased]
    /\ pc' = "write2"
    /\ UNCHANGED <<flash_pri, flashConfig, history>>

EraseSecondary ==
    /\ pc = "erase2"
    /\ \/ /\ flash' = [flash EXCEPT ![Secondary] = Erased]
          /\ pc' = "write2"
          /\ UNCHANGED <<restorable, acked, ackedNow>>
       \/ /\ \E x \in EraseFailed(flash[Secondary]) :
                flash' = [flash EXCEPT ![Secondary] = x]
          /\ return(FALSE)
    /\ UNCHANGED <<flash_pri, flashConfig, backedUp>>

WriteSecondary ==
    /\ pc = "write2"
    /\ \/ /\ flash' = [flash EXCEPT ![Secondary] = Write(flash[Secondary])]
          /\ pc' = "seal2"
          /\ UNCHANGED <<restorable, acked, ackedNow>>
       \/ /\ \E x \in WriteFailed(flash[Secondary]) :
                flash' = [flash EXCEPT ![Secondary] = x]
          /\ return(FALSE)
    /\ UNCHANGED <<flash_pri, flashConfig, backedUp>>

SealSecondary ==
    /\ pc = "seal2"
    /\ \/ /\ flash' = [flash EXCEPT ![Secondary] = Seal(flash[Secondary])]
          /\ pc' = "erase1"
          /\ UNCHANGED <<restorable, acked, ackedNow>>
       \/ /\ \E x \in SealFailed(flash[Secondary]) :
                flash' = [flash EXCEPT ![Secondary] = x]
          /\ return(FALSE)
    /\ UNCHANGED <<flash_pri, flashConfig, backedUp>>

\* From here on the new copy is the primary, whatever the erase returns.
\* A mutant: the new copy is not made the primary.
ErasePrimaryNoSwitch ==
    /\ pc = "erase1"
    /\ flash' = [flash EXCEPT ![flash_pri] = Erased]
    /\ pc' = "write1"
    /\ UNCHANGED <<flash_pri, flashConfig, history>>

ErasePrimary ==
    /\ pc = "erase1"
    /\ flash_pri' = Secondary
    /\ \/ /\ flash' = [flash EXCEPT ![flash_pri] = Erased]
          /\ pc' = "write1"
          /\ UNCHANGED <<restorable, acked, ackedNow>>
       \/ /\ \E x \in EraseFailed(flash[flash_pri]) :
                flash' = [flash EXCEPT ![flash_pri] = x]
          /\ return(TRUE)
    /\ UNCHANGED <<flashConfig, backedUp>>

WriteBackup ==
    /\ pc = "write1"
    /\ \/ /\ flash' = [flash EXCEPT ![Secondary] = Write(flash[Secondary])]
          /\ pc' = "seal1"
          /\ UNCHANGED <<restorable, acked, ackedNow>>
       \/ /\ \E x \in WriteFailed(flash[Secondary]) :
                flash' = [flash EXCEPT ![Secondary] = x]
          /\ return(TRUE)
    /\ UNCHANGED <<flash_pri, flashConfig, backedUp>>

\* The result of the last write is not looked at.
SealBackup ==
    /\ pc = "seal1"
    /\ \E x \in SealFailed(flash[Secondary]) :
          /\ flash' = [flash EXCEPT ![Secondary] = x]
          /\ backedUp' = CrcOk(x)
    /\ return(TRUE)
    /\ UNCHANGED <<flash_pri, flashConfig>>

-----------------------------------------------------------------------------
(* The power fails or the chip restarts, perhaps in the middle of a flash   *)
(* operation.                                                               *)
Interrupted ==
    (IF pc \in {"erase2", "erase1"} THEN {Erased, Torn} ELSE {}) \cup
    (IF pc \in {"write2", "write1"} THEN WriteFailed(flash[Secondary]) ELSE {}) \cup
    (IF pc \in {"seal2", "seal1"} THEN SealFailed(flash[Secondary]) ELSE {})

PowerLoss ==
    /\ pc # "boot"
    /\ pc' = "boot"
    /\ \/ UNCHANGED flash
       \/ \E x \in Interrupted :
             flash' = [flash EXCEPT ![IF pc = "erase1" THEN flash_pri ELSE Secondary] = x]
    /\ UNCHANGED <<flash_pri, flashConfig, history>>

Init ==
    /\ flash = [s \in Sectors |-> Erased]
    /\ flash_pri = 0
    /\ flashConfig = [cfg |-> Default, seq |-> DefaultSeq]
    /\ pc = "boot"
    /\ restorable = {Default}
    /\ acked = FALSE /\ ackedNow = FALSE /\ backedUp = FALSE

Next ==
    \/ \E bad \in ReadErrors : configRestore(bad)
    \/ \E c \in Configs : Edit(c)
    \/ BeginSave
    \/ EraseSecondary \/ WriteSecondary \/ SealSecondary
    \/ ErasePrimary \/ WriteBackup \/ SealBackup
    \/ PowerLoss

Spec == Init /\ [][Next]_vars

-----------------------------------------------------------------------------
(* Properties *)

(* A restart comes up with the configuration of the last save that         *)
(* returned true, or with one that a later save tried to write: never with *)
(* an older one, never with the defaults (configSave, configRestore).      *)
Durable == Restored({}).cfg \in restorable

(* Once a save has returned true there is at every moment a sector with a  *)
(* right CRC, so no failure of a later save, and no power loss during one, *)
(* brings the defaults back (the order of the operations in configSave).   *)
NeverLost == acked => Chosen({}) # -1

(* After a save that wrote both copies, a restart on which the read of     *)
(* either sector fails still finds the saved configuration: that is what   *)
(* the second copy is for.                                                 *)
BackupCoversRead ==
    backedUp => \A s \in Sectors : Restored({s}).cfg \in restorable

(* What the sectors hold at each step of a save. *)
StepInv ==
    /\ pc \in {"write2", "write1"} => flash[Secondary] = Erased
    /\ pc \in {"seal2", "seal1"} => flash[Secondary] = Unsealed(flashConfig.cfg, seq)
    /\ pc = "erase1" => flash[Secondary] = Sealed(flashConfig.cfg, seq)
    /\ pc \in {"write1", "seal1"} =>
           CrcOk(flash[flash_pri]) /\ flash[flash_pri].cfg = flashConfig.cfg

(* The invariant the proof of NeverLost rests on: the primary is good, and *)
(* it is only erased once its successor is sealed.                         *)
NeverLostInv ==
    /\ StepInv
    /\ acked /\ pc = "boot" => Chosen({}) # -1
    /\ acked /\ pc # "boot" => CrcOk(flash[flash_pri])

(* Durable is not inductive: what the sectors hold while a save is under   *)
(* way, and which of two good sectors a restart prefers, is.               *)
PrimaryInv ==
    IF CrcOk(flash[flash_pri])
    THEN flash[flash_pri].cfg \in restorable
    ELSE Default \in restorable

SecondaryInv ==
    CrcOk(flash[Secondary]) =>
        \/ flash[Secondary].cfg \in restorable
        \/ CrcOk(flash[flash_pri]) /\ Chosen({}) = flash_pri

SavingInv ==
    pc \in Saving => flashConfig.cfg \in restorable /\ (ResaveAfterAck \/ ~ackedNow)

SeqInv ==
    /\ pc \in {"idle", "erase2", "write2", "seal2", "erase1"}
    /\ ~ackedNow
    /\ CrcOk(flash[flash_pri])
    => flash[flash_pri].seq = flashConfig.seq

(* The invariant the proof of Durable rests on. *)
DurableInv ==
    /\ StepInv
    /\ pc = "boot" => Durable
    /\ pc \in {"idle", "erase2", "write2", "seal2", "erase1"} => PrimaryInv
    /\ pc \in {"idle", "erase2"} => SecondaryInv
    /\ SavingInv
    /\ SeqInv

(* The invariant the proof of BackupCoversRead rests on: what the save that *)
(* made the backup has sealed, with a number above that of a cleared        *)
(* buffer, is left alone until the next save.                               *)
BackupInv ==
    /\ pc \in {"write1", "seal1"} => flash[flash_pri].seq > 0
    /\ backedUp =>
          /\ pc \in {"boot", "idle"}
          /\ flash[0].cfg = flash[1].cfg /\ flash[0].cfg \in restorable
          /\ \A s \in Sectors : CrcOk(flash[s]) /\ flash[s].seq > 0

(* The store implements the register of ConfigRegister. *)
Register == INSTANCE ConfigRegister WITH
    current <- flashConfig.cfg,
    phase <- IF pc = "boot" THEN "off" ELSE IF pc = "idle" THEN "idle" ELSE "saving"
RegisterSpec == Register!Spec
=============================================================================
