------------------------------ MODULE FileServer ------------------------------
(***************************************************************************)
(* The lock tables of DxFileServer (Demo/FileServer/DxFileServer).  Every  *)
(* handler takes the server's lock for its whole body, so each is one      *)
(* step; they are run by the receiver of the connection, which may go on   *)
(* with requests it has in its queue when the disconnect event has already *)
(* been given.  Connections are pooled objects: their pointer and their    *)
(* handle, the keys of the tables, come back with the next connection.     *)
(*                                                                         *)
(* An entry of fReadingFile is deleted with its last reader, and the code  *)
(* treats an empty entry as an absent one: the empty set stands for both.  *)
(***************************************************************************)
EXTENDS Integers

CONSTANTS
  Cons,       \* pooled connection objects
  Files,      \* names of files in the directory of the server
  MaxBlocks,  \* bound: blocks of a file (a block is what one DownLoad returns)
  NoCon, NoFile

ASSUME BlocksAssumption == MaxBlocks \in Nat \ {0}
ASSUME NoneAssumption == NoCon \notin Cons /\ NoFile \notin Files

VARIABLES
  fReadingFile,   \* the connections that hold a read lock of a file
  fWritingFile,   \* the connection that holds its write lock
  fLockingQueue,  \* the one file that the disconnect event of a connection looks at
  phase,          \* of the object: "pooled", "live", "down" after its disconnect event
  size,           \* blocks of a file, -1 if it does not exist
  slipped         \* history: objects that locked in a way fLockingQueue cannot follow

serverVars == <<fReadingFile, fWritingFile, fLockingQueue, phase, size, slipped>>
tables == <<fReadingFile, fWritingFile, fLockingQueue>>

Absent == -1
FileExists(f) == size[f] # Absent
Holds(c, f) == c \in fReadingFile[f] \/ fWritingFile[f] = c

TypeOK ==
  /\ fReadingFile \in [Files -> SUBSET Cons]
  /\ fWritingFile \in [Files -> Cons \cup {NoCon}]
  /\ fLockingQueue \in [Cons -> Files \cup {NoFile}]
  /\ phase \in [Cons -> {"pooled", "live", "down"}]
  /\ size \in [Files -> Absent .. MaxBlocks]
  /\ slipped \in SUBSET Cons

-----------------------------------------------------------------------------
(* What the handlers answer: result.Err, "ok" for none, with the reason. *)
\* Mutant: a file that is being read may be locked for writing.
LockErrorForgetsReaders(f, ReadLock) ==
  CASE fWritingFile[f] # NoCon                    -> "busy"
    [] ReadLock /\ ~FileExists(f)                 -> "missing"
    [] OTHER                                      -> "ok"

LockError(f, ReadLock) ==
  CASE fWritingFile[f] # NoCon                    -> "busy"
    [] ~ReadLock /\ fReadingFile[f] # {}          -> "busy"
    [] ReadLock /\ ~FileExists(f)                 -> "missing"
    [] OTHER                                      -> "ok"

\* A reader that already has the lock is not asked for the file again.
Relock(c, f, ReadLock) == ReadLock /\ fWritingFile[f] = NoCon /\ c \in fReadingFile[f]

LockResult(c, f, ReadLock) == IF Relock(c, f, ReadLock) THEN "ok" ELSE LockError(f, ReadLock)

\* A block is answered, or "at the end" or "no such file".
DownLoadError(f, position) ==
  CASE ~FileExists(f)         -> "missing"
    [] position >= size[f]    -> "end"
    [] OTHER                  -> "ok"

-----------------------------------------------------------------------------
Init ==
  /\ fReadingFile = [f \in Files |-> {}]
  /\ fWritingFile = [f \in Files |-> NoCon]
  /\ fLockingQueue = [c \in Cons |-> NoFile]
  /\ phase = [c \in Cons |-> "pooled"]
  /\ size \in [Files -> {Absent, MaxBlocks}]
  /\ slipped = {}

Accept(c) ==
  /\ phase[c] = "pooled"
  /\ phase' = [phase EXCEPT ![c] = "live"]
  /\ UNCHANGED <<tables, size, slipped>>

\* A new lock overwrites the file that fLockingQueue has for the connection.
LockFile(c, f, ReadLock) ==
  /\ phase[c] # "pooled"
  /\ IF LockError(f, ReadLock) # "ok" \/ Relock(c, f, ReadLock)
     THEN UNCHANGED <<tables, slipped>>
     ELSE /\ fLockingQueue' = [fLockingQueue EXCEPT ![c] = f]
          /\ IF ReadLock
             THEN /\ fReadingFile' = [fReadingFile EXCEPT ![f] = @ \cup {c}]
                  /\ UNCHANGED fWritingFile
             ELSE /\ fWritingFile' = [fWritingFile EXCEPT ![f] = c]
                  /\ UNCHANGED fReadingFile
          /\ slipped' = IF phase[c] = "down" \/ \E g \in Files : Holds(c, g)
                        THEN slipped \cup {c} ELSE slipped
  /\ UNCHANGED <<phase, size>>

\* The write lock of a file is released whoever asks for it.
UnlockFile(c, f, ReadUnlock) ==
  /\ phase[c] # "pooled"
  /\ \/ /\ ReadUnlock /\ c \in fReadingFile[f]
        /\ fReadingFile' = [fReadingFile EXCEPT ![f] = @ \ {c}]
        /\ fLockingQueue' = [fLockingQueue EXCEPT ![c] = NoFile]
        /\ UNCHANGED fWritingFile
     \/ /\ ~ReadUnlock /\ fWritingFile[f] # NoCon
        /\ fWritingFile' = [fWritingFile EXCEPT ![f] = NoCon]
        /\ fLockingQueue' = [fLockingQueue EXCEPT ![c] = NoFile]
        /\ UNCHANGED fReadingFile
     \/ /\ IF ReadUnlock THEN c \notin fReadingFile[f] ELSE fWritingFile[f] = NoCon
        /\ UNCHANGED tables
  /\ slipped' = IF fLockingQueue'[c] = NoFile /\ \E g \in Files : Holds(c, g)'
                THEN slipped \cup {c} ELSE slipped
  /\ UNCHANGED <<phase, size>>

\* Neither upload nor download looks at the locks.  Position 0 creates the
\* file anew; the bytes are written at the position that the peer names.
UpLoad(c, f, position) ==
  /\ phase[c] # "pooled"
  /\ position < MaxBlocks
  /\ size' = [size EXCEPT ![f] = IF position = 0 \/ @ <= position THEN position + 1 ELSE @]
  /\ UNCHANGED <<tables, phase, slipped>>

\* Mutant: only a write lock is released.
DisConnectKeepsReader(c) ==
  LET f == fLockingQueue[c]
  IN  /\ phase[c] = "live"
      /\ phase' = [phase EXCEPT ![c] = "down"]
      /\ fWritingFile' = IF f # NoFile /\ fReadingFile[f] = {}
                         THEN [fWritingFile EXCEPT ![f] = NoCon] ELSE fWritingFile
      /\ fLockingQueue' = [fLockingQueue EXCEPT ![c] = NoFile]
      /\ UNCHANGED <<fReadingFile, size, slipped>>

\* OnClientDisConnected
DisConnect(c) ==
  LET f == fLockingQueue[c]
  IN  /\ phase[c] = "live"
      /\ phase' = [phase EXCEPT ![c] = "down"]
      /\ fReadingFile' = IF f # NoFile THEN [fReadingFile EXCEPT ![f] = @ \ {c}]
                         ELSE fReadingFile
      /\ fWritingFile' = IF f # NoFile /\ fReadingFile[f] = {}
                         THEN [fWritingFile EXCEPT ![f] = NoCon] ELSE fWritingFile
      /\ fLockingQueue' = [fLockingQueue EXCEPT ![c] = NoFile]
      /\ UNCHANGED <<size, slipped>>

Release(c) ==
  /\ phase[c] = "down"
  /\ phase' = [phase EXCEPT ![c] = "pooled"]
  /\ UNCHANGED <<tables, size, slipped>>

Request(c) ==
  \/ \E f \in Files, ReadLock \in BOOLEAN :
       LockFile(c, f, ReadLock) \/ UnlockFile(c, f, ReadLock)
  \/ \E f \in Files, position \in 0 .. MaxBlocks : UpLoad(c, f, position)

Next == \E c \in Cons : Accept(c) \/ Request(c) \/ DisConnect(c) \/ Release(c)

Spec == Init /\ [][Next]_serverVars

-----------------------------------------------------------------------------
\* A file that is locked for writing has no other holder of a lock.
WriteLockExcludes == \A f \in Files : fWritingFile[f] # NoCon => fReadingFile[f] = {}

\* A connection that is back in the pool has left no lock behind, which the
\* next connection with the same handle would have, unless it ever held two
\* locks, gave back another one's, or was given one after its disconnect event.
LeftLocksSlipped ==
  \A c \in Cons : phase[c] = "pooled" /\ (\E f \in Files : Holds(c, f)) => c \in slipped

=============================================================================
