------------------------------ MODULE Chunker ------------------------------
(***************************************************************************)
(* The chunks of one file that is not blank (indexing/chunker.py).  A file *)
(* is a sequence of top-level pieces, each some lines of one kind, or one  *)
(* piece where its syntax does not count; a chunk is its first and its     *)
(* last line.                                                              *)
(***************************************************************************)
EXTENDS Integers, Sequences

CONSTANTS
  Files,    \* the files to choose from: sequences of [kind, height]
  Settings  \* values of the settings: [maxLines, overlapLines]

\* def: a function or class.  stmt: an import or assignment.  other: all that is
\* no node of these types, as comments, decorators and compound statements.
PieceKinds == {"def", "stmt", "other"}
Pieces == [kind : PieceKinds, height : Nat \ {0}]

ASSUME ChunkerAssumption ==
  /\ Files \subseteq Seq(Pieces)
  /\ Settings \subseteq [maxLines : Int, overlapLines : Int]

VARIABLES
  python,   \* the file is Python, ast.parse accepts it and finds def or stmt
  rest,     \* the pieces that are not cut yet
  config,   \* the settings
  to,       \* the last line that was cut or left out, or is being cut
  at,       \* the line of the next window, 0 outside _chunk_by_lines
  chunks,   \* the chunks so far
  skipped   \* history variable: the lines of pieces of other kinds

chunkVars == <<python, rest, config, to, at, chunks, skipped>>

\* max_lines, overlap and stride.
Larger(a, b)  == IF a < b THEN b ELSE a
Smaller(a, b) == IF a < b THEN a ELSE b

\* Mutant: the size is taken as it is configured.
WindowLinesRaw == config.maxLines
WindowLines == Larger(1, config.maxLines)
Overlap == Larger(0, Smaller(config.overlapLines, WindowLines - 1))

\* Mutant: windows are moved on by their overlap too.
StrideWide == Larger(1, WindowLines + Overlap)
Stride == Larger(1, WindowLines - Overlap)

ChunkTypeOK ==
  /\ python \in BOOLEAN
  /\ rest \in Seq(Pieces)
  /\ config \in [maxLines : Int, overlapLines : Int]
  /\ to \in Nat
  /\ at \in Nat
  /\ chunks \subseteq Nat \X Nat
  /\ skipped \subseteq Nat

IsNode(piece) == piece.kind \in {"def", "stmt"}

ChunkInit ==
  /\ rest \in Files
  /\ config \in Settings
  /\ python \in BOOLEAN
  /\ IF python THEN \E i \in DOMAIN rest : IsNode(rest[i]) ELSE Len(rest) = 1
  /\ to = 0
  /\ at = 0
  /\ chunks = {}
  /\ skipped = {}

\* _chunk_python leaves a piece out, makes a chunk of it, or cuts it.
NextPiece ==
  /\ python /\ at = 0 /\ rest # <<>>
  /\ LET piece == Head(rest)
         last  == to + piece.height
     IN  /\ rest' = Tail(rest)
         /\ to' = last
         /\ IF ~IsNode(piece)
            THEN skipped' = skipped \cup (to + 1)..last /\ UNCHANGED <<chunks, at>>
            ELSE IF piece.height <= WindowLines
            THEN chunks' = chunks \cup {<<to + 1, last>>} /\ UNCHANGED <<at, skipped>>
            ELSE at' = to + 1 /\ UNCHANGED <<chunks, skipped>>
  /\ UNCHANGED <<python, config>>

\* Without nodes, or in another language, the whole file is cut.
WholeFile ==
  /\ ~python /\ at = 0 /\ rest # <<>>
  /\ rest' = <<>>
  /\ to' = to + Head(rest).height
  /\ at' = to + 1
  /\ UNCHANGED <<python, config, chunks, skipped>>

\* One turn of the loop of _chunk_by_lines.
Window ==
  /\ at > 0
  /\ chunks' = chunks \cup {<<at, Smaller(at + WindowLines - 1, to)>>}
  /\ at' = IF at + Stride <= to THEN at + Stride ELSE 0
  /\ UNCHANGED <<python, rest, config, to, skipped>>

ChunkNext == NextPiece \/ WholeFile \/ Window

ChunkSpec == ChunkInit /\ [][ChunkNext]_chunkVars

(***************************************************************************)
(* Properties.                                                             *)
(***************************************************************************)

Indexed(line) == \E c \in chunks : c[1] <= line /\ line <= c[2]

\* Whatever the sizes configured, zero, negative and larger than the window
\* included, every line of the file is in a chunk, but for what is no node of a
\* Python file that has some (chunker.py:79-101).
EveryLineIndexed ==
  \A line \in 1..to : line < at \/ at = 0 => Indexed(line) \/ line \in skipped

\* No chunk is longer than a window, and none goes beyond the file, whose lines
\* end at to (chunker.py:64).
ChunksFit ==
  \A c \in chunks : 1 <= c[1] /\ c[1] <= c[2] /\ c[2] <= to /\ c[2] - c[1] < WindowLines
=============================================================================
