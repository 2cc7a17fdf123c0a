--------------------------- MODULE MCModuleGraph ---------------------------
(* A small set of module classes for the module graph. *)
EXTENDS Cycles, TLC

Conn(io, chan, fmt) == [io |-> io, chan |-> chan, fmt |-> fmt]
Filter == 0 :> Conn("in", "*", "*") @@ 1 :> Conn("out", "*", "*")

\* Two filters that take anything and a display that does not, which reads
\* the first connector.
MCClass ==
  [a   |-> Filter,
   b   |-> 0 :> Conn("in", "*", "*") @@ 1 :> Conn("out", "&", "*"),
   c   |-> 0 :> Conn("in", "*", "*") @@ 1 :> Conn("out", "rgba", "f32"),
   dsp |-> 0 :> Conn("in", "rgba", "f32") @@ 1 :> NoConn]
MCKeys == DOMAIN MCClass
MCTokens == {"", "*", "&", "rgba", "f16", "f32"}
=============================================================================
