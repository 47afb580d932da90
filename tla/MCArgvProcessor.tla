-------------------------- MODULE MCArgvProcessor --------------------------
(* TLC instances of ArgvProcessor: the back end's options, and every       *)
(* command line of up to MaxWords of the words below.                      *)
EXTENDS ArgvProcessor

CONSTANT MaxWords

B == INSTANCE ProgramOptions

MCWords ==
  {B!Plain("a"), B!Plain("7"), B!Full("--spu"), B!Full("--lst"),
   B!Full("--tokens"), B!Full("--bad"), B!Short("-o", <<"o">>), B!Short("- ", <<" ">>),
   B!Short("-toS", <<"t", "o", "S">>), B!Short("-h", <<"h">>), B!Short("-Sx", <<"S", "x">>)}

MCRegistered == B!BackOptions
MCLines == UNION {[1..n -> MCWords] : n \in 0..MaxWords}
MCIntOf(text) == IF text = "7" THEN 7 ELSE 0
=============================================================================
