----------------------------- MODULE MCHistory -----------------------------
(* A source, a filter and a display for the history. *)
EXTENDS History, TLC

Conn(io, chan, fmt) == [io |-> io, chan |-> chan, fmt |-> fmt]

MCClass ==
  [src |-> 0 :> NoConn @@ 1 :> Conn("out", "rgba", "f16"),
   fil |-> 0 :> Conn("in", "*", "*") @@ 1 :> Conn("out", "*", "*"),
   dsp |-> 0 :> Conn("in", "rgba", "*") @@ 1 :> NoConn,
   dspy |-> 0 :> Conn("in", "rgba", "*") @@ 1 :> NoConn]
MCKeys == DOMAIN MCClass
MCTokens == {"", "*", "&", "rgba", "f16", "f32"}

Mod(k) == Line("module", k, 0, Nowhere, 0)
Con(a, b) == Line("connect", b, 0, <<a, 1>>, 0)
MCConfigs == {<<Mod("src"), Mod("fil"), Con("src", "fil")>>}
=============================================================================
