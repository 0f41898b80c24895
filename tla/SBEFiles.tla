------------------------------ MODULE SBEFiles ------------------------------
(***************************************************************************)
(* The two files an SBE queue is made of, as the producer process and its  *)
(* consumers share them: messages.sbe and messages.sbe.idx.                *)
(*                                                                         *)
(* `file' is everything the producer has written to its ofstream file_; of *)
(* that only the first `fileFlushed' cells have left the stream's buffer   *)
(* and are what another process sees.  `index' and `indexFlushed' are the  *)
(* same for indexFile_, whose entries are end offsets into messages.sbe.   *)
(*                                                                         *)
(* Bytes are grouped into cells: a message of size s is the cells 1..s,    *)
(* and cell 1 holds the SBE message header with the lengths that tell a    *)
(* reader how far the message extends.  A file that does not exist yet is  *)
(* an empty file: no operation of the writer or the poller tells them      *)
(* apart.                                                                  *)
(***************************************************************************)
EXTENDS Integers, Sequences

CONSTANTS
  Sizes,       (* the message sizes callers produce, in cells               *)
  BufferSize,  (* BUFFER_SIZE of the writer, INITIAL_BUFFER_SIZE of the     *)
               (* poller: both are 4092                                     *)
  MaxMessages  (* bound: the number of messages ever prepared               *)

ASSUME SBEFilesAssumption ==
  /\ Sizes \subseteq Nat \ {0}
  /\ BufferSize \in Nat \ {0}
  /\ MaxMessages \in Nat

VARIABLES file, fileFlushed, index, indexFlushed

fileVars == <<file, fileFlushed, index, indexFlushed>>

Message == [id : 1 .. MaxMessages, size : Sizes]

Cell == [msg : Message, at : Nat \ {0}]

FilesTypeOK ==
  /\ file \in Seq(Cell)
  /\ fileFlushed \in 0 .. Len(file)
  /\ index \in Seq(Nat)
  /\ indexFlushed \in 0 .. Len(index)

FilesInit ==
  /\ file = <<>>
  /\ fileFlushed = 0
  /\ index = <<>>
  /\ indexFlushed = 0

(* The last entry of the index file: how far a reader may go.              *)
LastIndexEntry == index[indexFlushed]
=============================================================================
