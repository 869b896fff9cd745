----------------------------- MODULE Filesystems -----------------------------
(***************************************************************************)
(* summarizeGuestFilesystems of providers/proxmox/proxmox.go: the disk of  *)
(* a guest from the file systems its agent lists.                          *)
(*                                                                         *)
(* A file system is [name, mountpoint, pseudo, total, used]: the texts may  *)
(* be empty or consist of blanks, pseudo says that its type is one of those *)
(* without storage of their own.                                           *)
(***************************************************************************)
EXTENDS Figures
LOCAL INSTANCE Sequences
LOCAL INSTANCE SequencesExt
LOCAL INSTANCE FiniteSetsExt

CONSTANTS
    Empty,  \* the empty text
    Blanks  \* a text of blanks; the others have no blanks around them

Trimmed(text) == IF text = Blanks THEN Empty ELSE text

FirstNonEmpty(a, b) == IF a # Empty THEN a ELSE b

KeyOf(fs) == FirstNonEmpty(Trimmed(fs.name), Trimmed(fs.mountpoint))

Counted(fs) ==
    /\ fs.total > 0 /\ ValidUsage(fs)
    /\ ~fs.pseudo
    /\ KeyOf(fs) # Empty

\* Sizes are int64.
Plus64(a, b) == ToInt((a + b) % Wrap)

\* The texts as they are listed: a mountpoint of blanks is kept, and the runner,
\* which trims it, then refuses the snapshot.
Mount(fs) ==
    LET at == FirstNonEmpty(fs.mountpoint, fs.name)
    IN  [named |-> Trimmed(at) # Empty, at |-> at, total |-> fs.total, used |-> fs.used]

\* One turn of the loop; a device that is listed again is counted once.
AddFilesystem(disk, fs) ==
    IF ~Counted(fs) \/ KeyOf(fs) \in disk.seen THEN disk
    ELSE [seen   |-> disk.seen \cup {KeyOf(fs)},
          total  |-> Plus64(disk.total, fs.total),
          used   |-> Plus64(disk.used, fs.used),
          mounts |-> Append(disk.mounts, Mount(fs))]

Summarized(list) ==
    FoldLeft(AddFilesystem, [seen |-> {}, total |-> 0, used |-> 0, mounts |-> <<>>], list)

\* Without it, the response is refused.
UsableDisk(disk) == disk.total > 0 /\ ValidUsage(disk)

-----------------------------------------------------------------------------
(* What it is to compute *)

\* The places in the list where a device is listed first.
Devices(list) ==
    {n \in DOMAIN list :
        /\ Counted(list[n])
        /\ \A m \in 1..(n - 1) : Counted(list[m]) => KeyOf(list[m]) # KeyOf(list[n])}

SizeOf(list) == MapThenSumSet(LAMBDA n : list[n].total, Devices(list))
UsedOf(list) == MapThenSumSet(LAMBDA n : list[n].used, Devices(list))

\* While the sizes fit an int64, each device counts once, has one mount, and only
\* a list without devices is refused; every mount has a name, unless a mountpoint
\* consists of blanks (proxmox.go:384-419).
SummaryCorrect(list) ==
    LET disk == Summarized(list)
    IN  SizeOf(list) <= Max64 =>
            /\ disk.total = SizeOf(list) /\ disk.used = UsedOf(list)
            /\ Len(disk.mounts) = Cardinality(Devices(list))
            /\ UsableDisk(disk) <=> Devices(list) # {}
            /\ (\A n \in DOMAIN list : list[n].mountpoint # Blanks) =>
                   \A n \in DOMAIN disk.mounts : disk.mounts[n].named
=============================================================================
