---------------------------- MODULE MCImDispatch ----------------------------
(* The sets of messages of the runs of ImDispatch. *)
EXTENDS ImDispatch

De(regs) == [reg : regs, part : Layers]

\* Commands that hold a flag until their keys are out, and those of one frame.
ConFlag == De({"activar", "desactivar", "inclusion", "panico", "fechaHora"})
           \cup [reg : {"borrarMemoria", "eventos", "replay"}, part : {0}]

\* A change of mode, which holds no flag, and an activation, which does.
ModoYActivar == De({"modoEstoy", "activar"})

\* Every message.
Todos == De(Registros)
=============================================================================
