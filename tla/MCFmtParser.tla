----------------------------- MODULE MCFmtParser -----------------------------
(***************************************************************************)
(* Instance of FmtParser for TLC: formats that are put together from up to *)
(* MaxPieces pieces: printf() conversions, text, and parts of conversions. *)
(***************************************************************************)
EXTENDS FmtParser, SequencesExt

CONSTANT MaxPieces   \* bound: pieces of a format

Pieces == {
  <<"s">>,
  <<"l">>,
  <<"d">>,
  <<"%">>,
  <<"%", "%">>,
  <<"%", "s">>,
  <<"%", "c">>,
  <<"%", "d">>,
  <<"%", "0", "5", "i">>,
  <<"%", "h", "h", "d">>,
  <<"%", "h", "u">>,
  <<"%", "u">>,
  <<"%", "l", "d">>,
  <<"%", "l", "l", "x">>,
  <<"%", "z", "u">>,
  <<"%", ".", "2", "f">>,
  <<"%", "L", "f">> }

Texts == {FlattenSeq(ps) : ps \in BoundedSeq(Pieces, MaxPieces)}

MCFormats == Texts

================================================================================
