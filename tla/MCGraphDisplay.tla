--------------------------- MODULE MCGraphDisplay ---------------------------
(* Small instances of GraphDisplay: what may happen besides editing. *)
EXTENDS GraphDisplay

\* everything
EveryAct  == {"download", "win1", "close", "resize", "lost", "leave"}
\* two monitors, one of them unplugged from the application
CloseActs == {"win1", "close"}
\* the outputs are downloaded at the press of a button
DownloadActs == {"download"}
\* nothing but editing, in one window or two
PlainActs == {"win1"}
=============================================================================
