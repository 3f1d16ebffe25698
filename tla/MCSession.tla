------------------------------- MODULE MCSession -------------------------------
(* Session on a small instance: the numbers are in session.cfg. *)
EXTENDS Session

MCTexts    == {<<"x">>, <<"y", EmptyLine, "z", EmptyLine>>, EmptyText}
MCPrograms == {{"text"}, {"style"}, {"jobs"}, {"units"}, {"text", "vm"},
               {"panels", "vm"}, {"store", "vm"}, {"outside", "vm", "slots"}}
MCMasks    == {{"gui", "network", "async_io", "file_system"}, {"async_io"}}
=============================================================================
