-------------------------------- MODULE Files --------------------------------
(***************************************************************************)
(* What a file system promises: a file is the sequence of bytes that have  *)
(* been written to it, whichever blocks they are kept in.                  *)
(*                                                                         *)
(* The arguments of a call may be any: they are found in the next state.   *)
(***************************************************************************)
EXTENDS Integers, SequencesExt

CONSTANTS
  Names,      \* names of files
  Devices     \* pseudo-devices for open files

Closed == [name |-> "", pos |-> 0]
Absent == [exists |-> FALSE, bytes |-> <<>>]

VARIABLES
  file,       \* the file of each name
  opened,     \* the file that is open on each device, and the position in it
  got         \* the bytes that the last read() has returned

fileVars == <<file, opened, got>>

FilesInit ==
  /\ file = [n \in Names |-> Absent]
  /\ opened = [d \in Devices |-> Closed]
  /\ got = <<>>

IsOpen(d) == opened[d] # Closed
Others(d) == \A e \in Devices \ {d} : opened'[e] = opened[e]

Open(d) ==
  LET n == opened'[d].name
  IN  /\ ~IsOpen(d) /\ Others(d)
      /\ opened'[d] = [name |-> n, pos |-> 0] /\ n \in Names
      /\ \A e \in Devices : opened[e].name # n
      /\ got' = <<>>
      /\ file' = [file EXCEPT ![n].exists = TRUE]

Close(d) ==
  /\ IsOpen(d)
  /\ opened' = [opened EXCEPT ![d] = Closed]
  /\ got' = <<>>
  /\ UNCHANGED file

\* A call that leaves the file open, and its position anywhere.
Moves(d) ==
  /\ IsOpen(d) /\ Others(d)
  /\ opened'[d].name = opened[d].name

\* The bytes up to the new position replace those that are there, and extend
\* the file.
Write(d) ==
  LET from == opened[d].pos
      to == opened'[d].pos
      n == opened[d].name
      old == file[n].bytes
  IN  /\ Moves(d) /\ to > from
      /\ got' = <<>>
      /\ file' = [file EXCEPT ![n].bytes =
                    SubSeq(old, 1, from) \o SubSeq(file'[n].bytes, from + 1, to)
                      \o SubSeq(old, to + 1, Len(old))]

\* Nothing is returned only at the end of the file.
Read(d) ==
  LET from == opened[d].pos
      to == opened'[d].pos
      bytes == file[opened[d].name].bytes
  IN  /\ Moves(d) /\ to = from + Len(got')
      /\ got' = SubSeq(bytes, from + 1, to)
      /\ got' = <<>> => from = Len(bytes)
      /\ UNCHANGED file

Seek(d) ==
  /\ Moves(d)
  /\ got' = <<>>
  /\ opened'[d].pos \in 0..Len(file[opened[d].name].bytes)
  /\ UNCHANGED file

Truncate(d) ==
  /\ Moves(d) /\ opened'[d].pos = 0
  /\ got' = <<>>
  /\ file' = [file EXCEPT ![opened[d].name].bytes = <<>>]

FilesNext ==
  \E d \in Devices : Open(d) \/ Close(d) \/ Write(d) \/ Read(d) \/ Seek(d) \/ Truncate(d)

FilesSpec == FilesInit /\ [][FilesNext]_fileVars
=============================================================================
