-------------------------- MODULE ImDispatchProofs --------------------------
(***************************************************************************)
(* Proofs about the buffer of keys of ImDispatch.                          *)
(*                                                                         *)
(* Two conditions keep it sane.  With one partition, every writer leaves   *)
(* keys to send and the last of them clears the only bit there is: the bus *)
(* is never blocked, whatever overwrites what.  With any number of them,   *)
(* and none of the writers that hold no flag, the flag keeps the second    *)
(* writer away until the bit of the first one is clear.                    *)
(***************************************************************************)
EXTENDS ImDispatch, TLAPS

\* What the buffer and its writers are made of: the part of TypeOK that the
\* arguments need.
KeysTypeOK ==
    /\ wcom \in Seq(Pedidos)
    /\ ptrTeclas \in Nat
    /\ lenTeclas \in Nat
    /\ mandarTeclas \subseteq Layers
    /\ codigo \in [para : Layers, largo : Nat]

\* The lowest of one bit is that bit.
LEMMA OneBit == ASSUME NEW l \in Nat PROVE SacarLayer({l}) = l
<1>1. \E k \in {l} : \A m \in {l} : k <= m
    OBVIOUS
<1>2. SacarLayer({l}) \in {l}
    BY <1>1 DEF SacarLayer
<1>3. QED
    BY <1>2

\* Whoever loads keys leaves keys to send.
LEMMA CargarLoads ==
    ASSUME NEW l \in Layers, NEW p, NEW d, NEW n \in Nat \ {0}, KeysTypeOK, Cargar(l, p, d, n)
    PROVE  /\ ptrTeclas' \in Nat /\ lenTeclas' \in Nat
           /\ mandarTeclas' \subseteq Layers
           /\ BusNotBlocked'
           /\ mandarTeclas' = mandarTeclas \cup {l}
           /\ bufferTeclas' = [para |-> p, de |-> d]
BY DEF Cargar, KeysTypeOK, BusNotBlocked, TeclasAfuera

\* A message leaves the queue with a register and a partition of Pedidos.
LEMMA HeadOfQueue ==
    ASSUME KeysTypeOK, wcom # <<>>
    PROVE  /\ Head(wcom) \in Pedidos
           /\ Head(wcom).reg \in Registros /\ Head(wcom).part \in Layers
           /\ Tail(wcom) \in Seq(Pedidos)
BY PedidosAssumption DEF KeysTypeOK
-----------------------------------------------------------------------------
(* One partition. *)

OneIInv == KeysTypeOK /\ BusNotBlocked

\* Nothing is waiting when the device starts.
LEMMA InitOne == Init => OneIInv
BY LayersAssumption DEF Init, OneIInv, KeysTypeOK, BusNotBlocked, TeclasAfuera

\* Attending to a message leaves the bus free.
LEMMA AtenderOne ==
    ASSUME OneIInv, NEW reg, NEW l \in Layers, Atender(reg, l)
    PROVE  /\ ptrTeclas' \in Nat /\ lenTeclas' \in Nat
           /\ mandarTeclas' \subseteq Layers
           /\ codigo' \in [para : Layers, largo : Nat]
           /\ BusNotBlocked'
<1> USE DEF OneIInv
<1>1. CodeLen + 1 \in Nat \ {0} /\ CodeLen \in Nat
    BY BoundsAssumption
<1>2. ASSUME ConCodigo(l)
      PROVE  Cargar(l, l, "setEstado", CodeLen + 1) /\ codigo' = codigo
    BY <1>2 DEF ConCodigo, cambio
<1>3. ASSUME NEW m, CambiarModo(l, m)
      PROVE  Cargar(l, l, "setEstado", 2) /\ codigo' \in [para : Layers, largo : Nat]
    BY <1>3, <1>1 DEF CambiarModo
<1>4. CASE SetEstado(reg, l)
    <2>1. ConCodigo(l) \/ \E m : CambiarModo(l, m)
        BY <1>4 DEF SetEstado, ActivarEnModo
    <2>2. CASE ConCodigo(l)
        BY <2>2, <1>1, <1>2, CargarLoads DEF KeysTypeOK
    <2>3. CASE \E m : CambiarModo(l, m)
        BY <2>3, <1>3, CargarLoads DEF KeysTypeOK
    <2>4. QED
        BY <2>1, <2>2, <2>3
<1>5. CASE SetInclusion(reg, l)
    BY <1>5, CargarLoads DEF SetInclusion, KeysTypeOK, cambio
<1>6. CASE SetModo(reg, l)
    <2>1. Cargar(l, l, "modo", 2) /\ codigo' = [codigo EXCEPT !.largo = 0]
        BY <1>6 DEF SetModo
    <2>2. codigo' \in [para : Layers, largo : Nat]
        BY <2>1 DEF KeysTypeOK
    <2>3. QED
        BY <2>1, <2>2, CargarLoads
<1>7. CASE UNCHANGED <<teclas, cambio>>
    BY <1>7 DEF teclas, cambio, KeysTypeOK, BusNotBlocked, TeclasAfuera
<1>8. ResetMemoria(reg, l) \/ Disparar(reg, l) \/ GetEventos(reg, l) \/ GetReplay(reg, l)
      \/ SetFechaHora(reg, l) \/ Rechazar(reg, l) => UNCHANGED <<teclas, cambio>>
    BY DEF ResetMemoria, Disparar, GetEventos, GetReplay, SetFechaHora, Rechazar
<1>9. QED
    BY <1>4, <1>5, <1>6, <1>7, <1>8 DEF Atender

\* A frame of the panel leaves the bus free.
LEMMA RecibirOne == OneIInv /\ Recibir => OneIInv'
<1> SUFFICES ASSUME OneIInv, Recibir PROVE OneIInv'
    OBVIOUS
<1> USE DEF OneIInv
<1>1. CASE UNCHANGED <<wcom, teclas, codigo>>
    BY <1>1 DEF teclas, KeysTypeOK, BusNotBlocked, TeclasAfuera
<1>2. CASE TramaModo
    <2>1. PICK l \in Layers, m \in Modos :
              \/ codigo.largo > 0 /\ Cargar(l, codigo.para, "codigo", codigo.largo)
              \/ Cargar(l, l, "modo", 1)
              \/ UNCHANGED teclas
        BY <1>2 DEF TramaModo
    <2>2. UNCHANGED <<wcom, codigo>>
        BY <1>2 DEF TramaModo, NuevaTrama
    <2>3. CASE codigo.largo > 0 /\ Cargar(l, codigo.para, "codigo", codigo.largo)
        <3>1. codigo.largo \in Nat \ {0}
            BY <2>3 DEF KeysTypeOK
        <3>2. QED
            BY <2>2, <2>3, <3>1, CargarLoads DEF KeysTypeOK
    <2>4. CASE Cargar(l, l, "modo", 1)
        BY <2>2, <2>4, CargarLoads DEF KeysTypeOK
    <2>5. CASE UNCHANGED teclas
        BY <1>1, <2>2, <2>5
    <2>6. QED
        BY <2>1, <2>3, <2>4, <2>5
<1>3. NoFrame \/ TramaEstado \/ TramaReplay \/ TramaZona \/ TramaFinReplay \/ TramaEvento("T")
      \/ TramaEvento("U") \/ TramaFyh \/ TramaWcom \/ TramaSalir
        => UNCHANGED <<wcom, teclas, codigo>>
    BY DEF NoFrame, TramaEstado, TramaReplay, TramaZona, TramaFinReplay, TramaEvento, TramaFyh,
           TramaWcom, TramaSalir, NuevaTrama, cambio, central
<1>4. QED
    BY <1>1, <1>2, <1>3 DEF Recibir

\* The only bit is cleared with the last key, and not before.
LEMMA SacarTeclaOne == Layers = {0} /\ OneIInv /\ SacarTecla => OneIInv'
<1> SUFFICES ASSUME Layers = {0}, OneIInv, SacarTecla PROVE OneIInv'
    OBVIOUS
<1>1. /\ mandarTeclas = {0} /\ ptrTeclas \in Nat /\ lenTeclas \in Nat
      /\ ptrTeclas' = ptrTeclas + 1 /\ lenTeclas' = lenTeclas
      /\ wcom' = wcom /\ codigo' = codigo
    BY DEF OneIInv, KeysTypeOK, SacarTecla, FinDelPaso, cambio
<1>2. SacarLayer(mandarTeclas) = 0
    BY <1>1, OneBit
<1>3. mandarTeclas' = IF ptrTeclas + 1 >= lenTeclas THEN {} ELSE {0}
    BY <1>1, <1>2 DEF SacarTecla
<1>4. KeysTypeOK'
    BY <1>1, <1>3 DEF OneIInv, KeysTypeOK
<1>5. BusNotBlocked'
    BY <1>1, <1>3 DEF BusNotBlocked, TeclasAfuera
<1>6. QED
    BY <1>4, <1>5 DEF OneIInv

\* Every step of an installation with one partition leaves the bus free.
LEMMA NextOne == Layers = {0} /\ OneIInv /\ [Next]_vars => OneIInv'
<1> SUFFICES ASSUME Layers = {0}, OneIInv, [Next]_vars PROVE OneIInv'
    OBVIOUS
<1>1. CASE UNCHANGED <<wcom, teclas, codigo>>
    BY <1>1 DEF OneIInv, teclas, KeysTypeOK, BusNotBlocked, TeclasAfuera
<1>2. CASE Recibir
    BY <1>2, RecibirOne
<1>3. CASE Dispatch
    <2>1. Head(wcom).part \in Layers /\ Tail(wcom) \in Seq(Pedidos)
        BY <1>3, HeadOfQueue DEF Dispatch, OneIInv
    <2>2. Atender(Head(wcom).reg, Head(wcom).part) /\ wcom' = Tail(wcom)
        BY <1>3 DEF Dispatch
    <2>3. QED
        BY <2>1, <2>2, AtenderOne DEF OneIInv, KeysTypeOK
<1>4. CASE ProgVence
    BY <1>4 DEF ProgVence, cambio, OneIInv, KeysTypeOK, BusNotBlocked, TeclasAfuera
<1>5. CASE SacarTecla
    BY <1>5, SacarTeclaOne
<1>6. CASE Tick
    <2>1. UNCHANGED <<wcom, codigo>>
        BY <1>6 DEF Tick, cambio
    <2>2. Cargar(0, 0, "eventos", 5) \/ UNCHANGED teclas
        BY <1>6 DEF Tick
    <2>3. CASE Cargar(0, 0, "eventos", 5)
        <3>1. KeysTypeOK /\ 0 \in Layers /\ 5 \in Nat \ {0}
            BY LayersAssumption DEF OneIInv
        <3>2. /\ ptrTeclas' \in Nat /\ lenTeclas' \in Nat
              /\ mandarTeclas' \subseteq Layers
              /\ BusNotBlocked'
            BY <2>3, <3>1, CargarLoads
        <3>3. QED
            BY <2>1, <3>1, <3>2 DEF OneIInv, KeysTypeOK
    <2>4. QED
        BY <1>1, <2>1, <2>2, <2>3
<1>7. CASE ServerSends
    BY <1>7 DEF ServerSends, teclas, cambio, OneIInv, KeysTypeOK, BusNotBlocked, TeclasAfuera
<1>8. NoDispatch \/ PatronSaca \/ DeterminarFin \/ BusOcupado \/ SacarPedido \/ SacarFyh
      \/ SacarPanico \/ UNCHANGED vars => UNCHANGED <<wcom, teclas, codigo>>
    BY DEF NoDispatch, PatronSaca, DeterminarFin, BusOcupado, SacarPedido, SacarFyh, SacarPanico,
           Sacar, FinDelPaso, cambio, vars
<1>9. QED
    BY <1>1, <1>2, <1>3, <1>4, <1>5, <1>6, <1>7, <1>8 DEF Next

\* With one partition nothing blocks the bus: every bit of mandarTeclas has
\* keys to send (main.c:389-402).
THEOREM OnePartitionNeverBlocks == Layers = {0} => (Spec => []BusNotBlocked)
<1> SUFFICES ASSUME Layers = {0} PROVE Spec => []BusNotBlocked
    OBVIOUS
<1>1. OneIInv /\ [Next]_vars => OneIInv'
    BY NextOne
<1>2. OneIInv => BusNotBlocked
    BY DEF OneIInv
<1>3. QED
    BY InitOne, <1>1, <1>2, PTL DEF Spec
-----------------------------------------------------------------------------
(* Any number of partitions, and every writer with a flag. *)

\* No message changes the mode, the recorder is not an old one and nobody
\* asks for the programming of the device.
KeepsFlags ==
    /\ \A p \in Pedidos : p.reg \notin {"activarEstoy", "activarMeVoy", "modoEstoy", "modoMeVoy"}
    /\ Tramas \cap {"T", "wcom"} = {}

Claves == {"setEstado", "setInclusion"}

\* Nothing is left that loads keys without a flag.
Quiet ==
    /\ cambioModo = [l \in Layers |-> {}]
    /\ enProg = FALSE
    /\ eventos \in [timer : Nat, bytes : Nat, es9108 : {FALSE}, mande38368 : BOOLEAN]

\* Keys to send are keys of one partition, and their flag is held.
Held ==
    /\ mandarTeclas # {} =>
        /\ mandarTeclas = {bufferTeclas.para}
        /\ ptrTeclas < lenTeclas
        /\ bufferTeclas.de \in Claves \cap procesando
    /\ \A f \in Claves : f \in procesando => bufferTeclas.de = f

FlagIInv == KeysTypeOK /\ Quiet /\ Held

\* Nothing is waiting when the device starts.
LEMMA InitFlag == Init => FlagIInv
BY InitOne DEF Init, OneIInv, FlagIInv, Quiet, Held, Claves

\* The flag excludes the second writer, so the keys are of one partition.
LEMMA FlagImplies == FlagIInv => BusNotBlocked /\ KeysGoToTheirPartition
<1> SUFFICES ASSUME FlagIInv PROVE BusNotBlocked /\ KeysGoToTheirPartition
    OBVIOUS
<1> USE DEF FlagIInv, KeysTypeOK, Held
<1>1. BusNotBlocked
    BY DEF BusNotBlocked, TeclasAfuera
<1>2. ASSUME mandarTeclas # {} PROVE bufferTeclas.para = SacarLayer(mandarTeclas)
    <2>1. mandarTeclas = {bufferTeclas.para} /\ bufferTeclas.para \in Nat
        BY <1>2, LayersAssumption
    <2>2. QED
        BY <2>1, OneBit
<1>3. QED
    BY <1>1, <1>2 DEF KeysGoToTheirPartition

\* A writer finds no keys to send, and loads its own under its flag.
LEMMA CargarHeld ==
    ASSUME FlagIInv, procesando = {}, NEW f \in Claves, NEW l \in Layers, NEW n \in Nat \ {0},
           Cargar(l, l, f, n), procesando' = procesando \cup {f}
    PROVE  Held'
BY CargarLoads DEF FlagIInv, Held, Cargar

\* The keys stay where they are and no flag of theirs is released.
LEMMA StaysHeld ==
    ASSUME FlagIInv, UNCHANGED teclas, Claves \cap procesando' = Claves \cap procesando
    PROVE  Held'
<1>1. UNCHANGED <<bufferTeclas, ptrTeclas, lenTeclas, mandarTeclas>>
    BY DEF teclas
<1>2. QED
    BY <1>1 DEF FlagIInv, Held

\* The recorder goes on being a new one.
LEMMA StaysNew ==
    ASSUME FlagIInv, NEW t \in Nat, NEW b \in Nat, NEW m \in BOOLEAN,
           eventos' = [eventos EXCEPT !.timer = t, !.bytes = b, !.mande38368 = m],
           UNCHANGED <<cambioModo, enProg>>
    PROVE  Quiet'
BY DEF FlagIInv, Quiet

\* What attending to a message does to the keys and their flags.
LEMMA AtenderFlag ==
    ASSUME KeepsFlags, FlagIInv, procesando = {}, NEW p \in Pedidos,
           Atender(p.reg, p.part), enProg' = enProg
    PROVE  Quiet' /\ Held'
<1> DEFINE l == p.part
           reg == p.reg
<1>1. l \in Layers /\ reg \notin {"activarEstoy", "activarMeVoy", "modoEstoy", "modoMeVoy"}
    BY PedidosAssumption DEF KeepsFlags
<1>2. CodeLen + 1 \in Nat \ {0} /\ 2 \in Nat \ {0}
    BY BoundsAssumption
<1>3. CASE SetEstado(reg, l)
    <2>1. ConCodigo(l)
        BY <1>1, <1>3 DEF SetEstado
    <2>2. /\ Cargar(l, l, "setEstado", CodeLen + 1)
          /\ procesando' = procesando \cup {"setEstado"}
          /\ UNCHANGED <<cambioModo, eventos>>
        BY <2>1 DEF ConCodigo, cambio
    <2>3. Held'
        BY <1>1, <1>2, <2>2, CargarHeld DEF Claves
    <2>4. QED
        BY <2>2, <2>3 DEF FlagIInv, Quiet
<1>4. CASE SetInclusion(reg, l)
    <2>1. /\ Cargar(l, l, "setInclusion", 2)
          /\ procesando' = procesando \cup {"setInclusion"}
          /\ UNCHANGED <<cambioModo, eventos>>
        BY <1>4 DEF SetInclusion, cambio
    <2>2. Held'
        BY <1>1, <1>2, <2>1, CargarHeld DEF Claves
    <2>3. QED
        BY <2>1, <2>2 DEF FlagIInv, Quiet
<1>5. CASE SetModo(reg, l)
    BY <1>1, <1>5 DEF SetModo
<1>6. CASE GetEventos(reg, l)
    <2>1. /\ eventos' = [timer |-> Timeout, bytes |-> 0, es9108 |-> FALSE, mande38368 |-> FALSE]
          /\ procesando' = procesando \cup {"getEventos"}
          /\ UNCHANGED <<teclas, cambioModo>>
        BY <1>6 DEF GetEventos, cambio
    <2>2. Quiet'
        BY <2>1, BoundsAssumption DEF FlagIInv, Quiet
    <2>3. QED
        BY <2>1, <2>2, StaysHeld DEF Claves
<1>7. CASE \/ ResetMemoria(reg, l) \/ Disparar(reg, l) \/ GetReplay(reg, l)
           \/ SetFechaHora(reg, l) \/ Rechazar(reg, l)
    <2>1. UNCHANGED <<teclas, cambioModo, eventos>>
        BY <1>7 DEF ResetMemoria, Disparar, GetReplay, SetFechaHora, Rechazar, cambio
    <2>2. Claves \cap procesando' = Claves \cap procesando
        BY <1>7 DEF ResetMemoria, Disparar, GetReplay, SetFechaHora, Rechazar, Claves
    <2>3. QED
        BY <2>1, <2>2, StaysHeld DEF FlagIInv, Quiet
<1>8. QED
    BY <1>3, <1>4, <1>5, <1>6, <1>7 DEF Atender

\* What a frame of the panel does to them.
LEMMA RecibirFlag ==
    ASSUME KeepsFlags, FlagIInv, Recibir
    PROVE  /\ UNCHANGED <<wcom, teclas, codigo>>
           /\ Quiet'
           /\ Claves \cap procesando' = Claves \cap procesando
<1>1. CASE NoFrame \/ TramaEstado \/ TramaReplay \/ TramaFyh
    BY <1>1 DEF NoFrame, TramaEstado, TramaReplay, TramaFyh, NuevaTrama, cambio, central,
                FlagIInv, Quiet
<1>2. CASE TramaZona \/ TramaFinReplay
    <2>1. UNCHANGED <<wcom, teclas, cambio, eventos, enProg>>
        BY <1>2 DEF TramaZona, TramaFinReplay, NuevaTrama, central
    <2>2. procesando' \in {procesando, procesando \ {"getReplay"}}
        BY <1>2 DEF TramaZona, TramaFinReplay
    <2>3. QED
        BY <2>1, <2>2 DEF cambio, FlagIInv, Quiet, Claves
<1>3. CASE TramaModo
    <2>1. UNCHANGED <<wcom, codigo, procesando, eventos, enProg>>
        BY <1>3 DEF TramaModo, NuevaTrama
    <2>2. \A l \in Layers, m \in Modos : ~ModoPedido(l, m) /\ ~ModoEquivocado(l, m)
        BY DEF FlagIInv, Quiet, ModoPedido, ModoEquivocado
    <2>3. UNCHANGED <<teclas, cambioModo>>
        BY <1>3, <2>2 DEF TramaModo
    <2>4. QED
        BY <2>1, <2>3 DEF FlagIInv, Quiet
<1>4. CASE TramaEvento("U")
    <2>1. UNCHANGED <<wcom, teclas, cambio, enProg>>
        BY <1>4 DEF TramaEvento, NuevaTrama, central
    <2>2. procesando' \in {procesando, procesando \ {"getEventos"}}
        BY <1>4 DEF TramaEvento
    <2>3. eventos' = [eventos EXCEPT !.es9108 = FALSE, !.timer = Timeout, !.bytes = @ + 1]
        BY <1>4 DEF TramaEvento
    <2>4. Quiet'
        <3>1. eventos' = [timer |-> Timeout, bytes |-> eventos.bytes + 1, es9108 |-> FALSE,
                          mande38368 |-> eventos.mande38368]
            BY <2>3 DEF FlagIInv, Quiet
        <3>2. eventos.bytes \in Nat /\ eventos.mande38368 \in BOOLEAN /\ Timeout \in Nat
            BY BoundsAssumption DEF FlagIInv, Quiet
        <3>3. QED
            BY <2>1, <3>1, <3>2 DEF cambio, FlagIInv, Quiet
    <2>5. QED
        BY <2>1, <2>2, <2>4 DEF cambio, Claves
<1>5. CASE TramaEvento("T") \/ TramaWcom \/ TramaSalir
    BY <1>5 DEF TramaEvento, TramaWcom, TramaSalir, NuevaTrama, KeepsFlags, FlagIInv, Quiet
<1>6. QED
    BY <1>1, <1>2, <1>3, <1>4, <1>5 DEF Recibir

\* What the timers do to them: no recorder is sent keys.
LEMMA TickFlag ==
    ASSUME FlagIInv, Tick
    PROVE  /\ UNCHANGED <<wcom, teclas, codigo>>
           /\ Quiet'
           /\ Claves \cap procesando' = Claves \cap procesando
<1>1. ~SacaEvent
    BY DEF FlagIInv, Quiet, SacaEvent
<1>2. UNCHANGED <<wcom, teclas, cambio, enProg>>
    BY <1>1 DEF Tick, central
<1>3. procesando' = procesando \ (FinReplay \cup FinEventos)
    BY DEF Tick
<1>4. LessOne(eventos.timer) \in Nat
    BY DEF FlagIInv, Quiet, LessOne
<1>5. PICK m \in BOOLEAN :
          eventos' = [eventos EXCEPT !.timer = LessOne(eventos.timer), !.mande38368 = m]
    BY <1>1 DEF Tick
<1>6. eventos' = [eventos EXCEPT !.timer = LessOne(eventos.timer), !.bytes = eventos.bytes,
                                 !.mande38368 = m]
    BY <1>5 DEF FlagIInv, Quiet
<1>7. Quiet'
    BY <1>2, <1>4, <1>6, StaysNew DEF cambio, FlagIInv, Quiet
<1>8. QED
    BY <1>2, <1>3, <1>7 DEF cambio, Claves, FinReplay, FinEventos

\* A key goes out: the bit of its partition is cleared with the last one.
LEMMA SacarTeclaFlag == FlagIInv /\ SacarTecla => FlagIInv'
<1> SUFFICES ASSUME FlagIInv, SacarTecla PROVE FlagIInv'
    OBVIOUS
<1>1. /\ ptrTeclas' = ptrTeclas + 1
      /\ UNCHANGED <<wcom, cambio, enProg, eventos, bufferTeclas, lenTeclas, procesando>>
    BY DEF SacarTecla, FinDelPaso, central
<1>2. mandarTeclas = {bufferTeclas.para} /\ SacarLayer(mandarTeclas) = bufferTeclas.para
    BY FlagImplies DEF SacarTecla, FlagIInv, Held, KeysGoToTheirPartition
<1>3. mandarTeclas' = IF ptrTeclas + 1 >= lenTeclas THEN {} ELSE mandarTeclas
    BY <1>2 DEF SacarTecla
<1>4. KeysTypeOK'
    BY <1>1, <1>3 DEF cambio, FlagIInv, KeysTypeOK
<1>5. Quiet'
    BY <1>1 DEF cambio, FlagIInv, Quiet
<1>6. Held'
    BY <1>1, <1>3 DEF FlagIInv, KeysTypeOK, Held
<1>7. QED
    BY <1>4, <1>5, <1>6 DEF FlagIInv

\* Every step keeps the flag with the keys.
LEMMA NextFlag == KeepsFlags /\ FlagIInv /\ [Next]_vars => FlagIInv'
<1> SUFFICES ASSUME KeepsFlags, FlagIInv, [Next]_vars PROVE FlagIInv'
    OBVIOUS
<1>1. ASSUME UNCHANGED <<wcom, teclas, codigo>>, Quiet',
             Claves \cap procesando' = Claves \cap procesando
      PROVE  FlagIInv'
    BY <1>1, StaysHeld DEF FlagIInv, KeysTypeOK, teclas
<1>2. CASE Recibir
    BY <1>1, <1>2, RecibirFlag
<1>3. CASE Tick
    BY <1>1, <1>3, TickFlag
<1>4. CASE SacarTecla
    BY <1>4, SacarTeclaFlag
<1>5. CASE Dispatch
    <2>1. /\ Head(wcom) \in Pedidos /\ Head(wcom).part \in Layers
          /\ Tail(wcom) \in Seq(Pedidos)
        BY <1>5, HeadOfQueue DEF Dispatch, FlagIInv
    <2>2. /\ procesando = {} /\ Atender(Head(wcom).reg, Head(wcom).part)
          /\ wcom' = Tail(wcom) /\ enProg' = enProg
        BY <1>5 DEF Dispatch, central
    <2>3. Quiet' /\ Held'
        BY <2>1, <2>2, AtenderFlag
    <2>4. OneIInv
        BY FlagImplies DEF FlagIInv, OneIInv
    <2>5. KeysTypeOK'
        BY <2>1, <2>2, <2>4, AtenderOne DEF KeysTypeOK
    <2>6. QED
        BY <2>3, <2>5 DEF FlagIInv
<1>6. CASE DeterminarFin
    <2>1. /\ UNCHANGED <<wcom, teclas, cambio, enProg, eventos>>
          /\ procesando' = procesando \ (FinTeclas \cup FinFyh)
        BY <1>6 DEF DeterminarFin, central
    <2>2. mandarTeclas # {} => FinTeclas = {}
        BY DEF FlagIInv, KeysTypeOK, Held, FinTeclas, TeclasAfuera
    <2>3. FinFyh \cap Claves = {}
        BY DEF FinFyh, Claves
    <2>4. Held'
        BY <2>1, <2>2, <2>3 DEF teclas, FlagIInv, Held, Claves
    <2>5. QED
        BY <2>1, <2>4 DEF teclas, cambio, FlagIInv, KeysTypeOK, Quiet
<1>7. CASE ServerSends
    <2>1. /\ UNCHANGED <<teclas, cambio, enProg, eventos, procesando>>
          /\ wcom' \in Seq(Pedidos)
        BY <1>7 DEF ServerSends, central, FlagIInv, KeysTypeOK
    <2>2. QED
        BY <2>1, StaysHeld DEF teclas, cambio, FlagIInv, KeysTypeOK, Quiet
<1>8. CASE ProgVence
    BY <1>8 DEF ProgVence, FlagIInv, Quiet
<1>9. CASE NoDispatch \/ PatronSaca \/ BusOcupado \/ SacarPedido \/ SacarFyh
           \/ SacarPanico \/ UNCHANGED vars
    <2>1. UNCHANGED <<wcom, teclas, cambio, enProg, eventos, procesando>>
        BY <1>9 DEF NoDispatch, PatronSaca, BusOcupado, SacarPedido, SacarFyh, SacarPanico,
                    Sacar, FinDelPaso, central, vars
    <2>2. QED
        BY <1>1, <2>1 DEF cambio, FlagIInv, Quiet
<1>10. QED
    BY <1>2, <1>3, <1>4, <1>5, <1>6, <1>7, <1>8, <1>9 DEF Next

\* A flag is released by alarmMonitor_determinarFinProcesamiento alone.
LEMMA FlagReleased ==
    ASSUME KeepsFlags, FlagIInv, [Next]_vars, NEW f \in Claves, f \in procesando, f \notin procesando'
    PROVE  bufferTeclas.de = f /\ TeclasAfuera
<1>1. bufferTeclas.de = f
    BY DEF FlagIInv, Held
<1>2. CASE Recibir
    BY <1>2, RecibirFlag
<1>3. CASE Tick
    BY <1>3, TickFlag
<1>4. CASE DeterminarFin
    <2>1. f \in FinTeclas
        BY <1>4 DEF DeterminarFin, FinFyh, Claves
    <2>2. QED
        BY <1>1, <2>1 DEF FinTeclas
<1>5. CASE \/ Dispatch \/ NoDispatch \/ PatronSaca \/ ProgVence \/ BusOcupado \/ SacarPedido
           \/ SacarTecla \/ SacarFyh \/ SacarPanico \/ ServerSends \/ UNCHANGED vars
    BY <1>5 DEF Dispatch, NoDispatch, PatronSaca, ProgVence, BusOcupado, SacarPedido, SacarTecla,
                SacarFyh, SacarPanico, Sacar, FinDelPaso, ServerSends, vars
<1>6. QED
    BY <1>2, <1>3, <1>4, <1>5 DEF Next

\* With every writer under its flag, any number of partitions share the one
\* buffer: the keys go to the partition they were loaded for, and the bus is
\* never blocked (main.c:287, 389-402).
THEOREM FlagKeepsWritersApart == KeepsFlags => (Spec => [](BusNotBlocked /\ KeysGoToTheirPartition))
<1> SUFFICES ASSUME KeepsFlags PROVE Spec => [](BusNotBlocked /\ KeysGoToTheirPartition)
    OBVIOUS
<1>1. FlagIInv /\ [Next]_vars => FlagIInv'
    BY NextFlag
<1>2. QED
    BY InitFlag, <1>1, FlagImplies, PTL DEF Spec

\* And no command is taken for finished before its own keys, all of them, are
\* out (alarmMonitor.c:916-930).
THEOREM FlagReleasedLast == KeepsFlags => (Spec => KeysSentBeforeRelease)
<1> SUFFICES ASSUME KeepsFlags PROVE Spec => KeysSentBeforeRelease
    OBVIOUS
<1>1. FlagIInv /\ [Next]_vars => FlagIInv'
    BY NextFlag
<1>2. FlagIInv /\ [Next]_vars =>
        [\A f \in {"setEstado", "setInclusion"} :
           f \in procesando /\ f \notin procesando' =>
              bufferTeclas.de = f /\ TeclasAfuera]_vars
    BY FlagReleased DEF Claves
<1>3. QED
    BY InitFlag, <1>1, <1>2, PTL DEF Spec, KeysSentBeforeRelease
-----------------------------------------------------------------------------
(* Types, for any number of partitions and every message and frame.  The two  *)
(* counts that nothing bounds by themselves, the zones of a replay and the    *)
(* bytes of a log, are bounded by the flags that end with them.               *)

CountsBounded ==
    /\ replay.en => replay.index < ReplayZones
    /\ "getEventos" \in procesando => eventos.bytes < EventBytes

TypeInv == TypeOK /\ CountsBounded

KeysType ==
    /\ bufferTeclas \in [para : Layers, de : {"nadie", "setEstado", "setInclusion",
                                              "modo", "codigo", "eventos", "prog"}]
    /\ ptrTeclas \in Nat
    /\ lenTeclas \in Nat
    /\ mandarTeclas \subseteq Layers

LEMMA CargarType ==
    ASSUME TypeOK, NEW l \in Layers, NEW p \in Layers, NEW n \in Nat,
           NEW d \in {"setEstado", "setInclusion", "modo", "codigo", "eventos"},
           Cargar(l, p, d, n)
    PROVE  KeysType'
BY DEF Cargar, KeysType, TypeOK

LEMMA TypeInit == Init => TypeInv
<1> SUFFICES ASSUME Init PROVE TypeInv
    OBVIOUS
<1> USE LayersAssumption, BoundsAssumption
    DEF Init, TypeOK, CountsBounded, TypeInv, Colas, Estados, Modos, Flags
<1>1. wcom \in Seq(Pedidos) /\ pedidos \in 0..MaxPedidos /\ tramas \in 0..MaxTramas
    OBVIOUS
<1>2. /\ estadoAlarma \in [Layers -> Estados] /\ modo \in [Layers -> Modos]
      /\ cambioModo \in [Layers -> SUBSET Modos] /\ mandar \in [Colas -> SUBSET Layers]
    OBVIOUS
<1>3. /\ replay \in [en : BOOLEAN, timer : 0..Timeout, index : 0..ReplayZones]
      /\ eventos \in [timer : 0..Timeout, bytes : 0..EventBytes,
                      es9108 : BOOLEAN, mande38368 : BOOLEAN]
    OBVIOUS
<1>4. QED
    BY <1>1, <1>2, <1>3

ReplayType == replay \in [en : BOOLEAN, timer : 0..Timeout, index : 0..ReplayZones]
EventosType == eventos \in [timer : 0..Timeout, bytes : 0..EventBytes,
                            es9108 : BOOLEAN, mande38368 : BOOLEAN]

\* A frame of a replay, of a log or of the date.
LEMMA FrameType ==
    ASSUME TypeInv, NEW k \in Tramas, NuevaTrama(k),
           UNCHANGED <<central, teclas, cambio, mandar, fyh>>,
           ReplayType', EventosType', procesando' \subseteq procesando, CountsBounded'
    PROVE  TypeInv'
<1> USE DEF TypeInv, TypeOK, NuevaTrama
<1>1. tramas' \in 0..MaxTramas BY BoundsAssumption
<1> QED BY <1>1 DEF ReplayType, EventosType, central, teclas, cambio

LEMMA RecibirType == TypeInv /\ Recibir => TypeInv'
<1> SUFFICES ASSUME TypeInv, Recibir PROVE TypeInv'
    OBVIOUS
<1> USE LayersAssumption, BoundsAssumption
    DEF TypeInv, TypeOK, CountsBounded, NuevaTrama, entorno, central, teclas, cambio
<1>1. CASE NoFrame BY <1>1 DEF NoFrame
<1>2. CASE TramaEstado BY <1>2 DEF TramaEstado
<1>3. CASE TramaModo
    <2> USE <1>3 DEF TramaModo
    <2>1. PICK l \in Layers, m \in Modos :
            /\ modo' = [modo EXCEPT ![l] = m]
            /\ \/ /\ cambioModo' = [cambioModo EXCEPT ![l] = @ \ {m}]
                  /\ IF codigo.largo > 0
                     THEN Cargar(l, codigo.para, "codigo", codigo.largo)
                     ELSE UNCHANGED teclas
               \/ Cargar(l, l, "modo", 1) /\ UNCHANGED cambioModo
               \/ UNCHANGED <<teclas, cambioModo>>
        OBVIOUS
    <2>2. KeysType'
        <3>1. CASE UNCHANGED teclas BY <3>1 DEF KeysType
        <3>2. CASE Cargar(l, codigo.para, "codigo", codigo.largo)
            <4>1. codigo.para \in Layers /\ codigo.largo \in Nat OBVIOUS
            <4> QED BY <3>2, <4>1, CargarType
        <3>3. CASE Cargar(l, l, "modo", 1) BY <3>3, CargarType
        <3> QED BY <2>1, <3>1, <3>2, <3>3
    <2>3. modo' \in [Layers -> Modos] /\ cambioModo' \in [Layers -> SUBSET Modos]
        BY <2>1
    <2>4. tramas' \in 0..MaxTramas OBVIOUS
    <2> QED BY <2>2, <2>3, <2>4 DEF KeysType
<1>4. CASE TramaReplay
    <2> HIDE DEF TypeInv, TypeOK, CountsBounded, NuevaTrama
    <2>0. CountsBounded /\ ReplayType /\ EventosType
        BY DEF TypeInv, TypeOK, ReplayType, EventosType
    <2>1. replay' = [en |-> TRUE, timer |-> Timeout,
                     index |-> IF replay.en THEN replay.index ELSE 0]
        BY <1>4, <2>0 DEF TramaReplay, ReplayType
    <2>2. replay'.index \in 0..ReplayZones /\ replay'.index < ReplayZones
        BY <2>0, <2>1 DEF ReplayType, CountsBounded
    <2>3. ReplayType' BY <2>1, <2>2 DEF ReplayType
    <2>4. UNCHANGED <<procesando, eventos>> BY <1>4 DEF TramaReplay
    <2>5. CountsBounded' BY <2>0, <2>2, <2>4 DEF CountsBounded
    <2> QED BY <1>4, <2>0, <2>3, <2>5, FrameType DEF TramaReplay, NuevaTrama, EventosType
<1>5. CASE TramaZona
    <2> HIDE DEF TypeInv, TypeOK, CountsBounded, NuevaTrama
    <2>0. CountsBounded /\ ReplayType /\ EventosType
        BY DEF TypeInv, TypeOK, ReplayType, EventosType
    <2>1. replay' = [en |-> replay.index + 1 < ReplayZones, timer |-> replay.timer,
                     index |-> replay.index + 1]
        BY <1>5, <2>0 DEF TramaZona, ReplayType
    <2>2. replay.index < ReplayZones BY <1>5, <2>0 DEF TramaZona, CountsBounded
    <2>3. ReplayType' BY <2>0, <2>1, <2>2 DEF ReplayType
    <2>4. procesando' \subseteq procesando BY <1>5 DEF TramaZona
    <2>5. CountsBounded' BY <1>5, <2>0, <2>1, <2>4 DEF TramaZona, CountsBounded
    <2> QED BY <1>5, <2>0, <2>3, <2>4, <2>5, FrameType DEF TramaZona, NuevaTrama, EventosType
<1>6. CASE TramaFinReplay
    <2> HIDE DEF TypeInv, TypeOK, CountsBounded, NuevaTrama
    <2>0. CountsBounded /\ ReplayType /\ EventosType
        BY DEF TypeInv, TypeOK, ReplayType, EventosType
    <2>1. replay' = [en |-> FALSE, timer |-> 0, index |-> replay.index]
        BY <1>6, <2>0 DEF TramaFinReplay, ReplayType
    <2>2. ReplayType' BY <2>0, <2>1 DEF ReplayType
    <2>3. procesando' \subseteq procesando BY <1>6 DEF TramaFinReplay
    <2>4. CountsBounded' BY <1>6, <2>0, <2>1, <2>3 DEF TramaFinReplay, CountsBounded
    <2> QED BY <1>6, <2>0, <2>2, <2>3, <2>4, FrameType DEF TramaFinReplay, NuevaTrama, EventosType
<1>7. ASSUME NEW k \in {"T", "U"}, TramaEvento(k) PROVE TypeInv'
    <2> HIDE DEF TypeInv, TypeOK, CountsBounded, NuevaTrama
    <2>0. CountsBounded /\ ReplayType /\ EventosType
        BY DEF TypeInv, TypeOK, ReplayType, EventosType
    <2>1. eventos' = [timer |-> Timeout, bytes |-> eventos.bytes + 1, es9108 |-> (k = "T"),
                      mande38368 |-> eventos.mande38368]
        BY <1>7, <2>0 DEF TramaEvento, EventosType
    <2>2. eventos.bytes < EventBytes BY <1>7, <2>0 DEF TramaEvento, CountsBounded
    <2>3. EventosType' BY <2>0, <2>1, <2>2 DEF EventosType
    <2>4. procesando' \subseteq procesando BY <1>7 DEF TramaEvento
    <2>5. CountsBounded'
        <3>1. "getEventos" \in procesando' => eventos.bytes + 1 < EventBytes
            BY <1>7 DEF TramaEvento
        <3> QED BY <1>7, <2>0, <2>1, <3>1 DEF TramaEvento, CountsBounded
    <2> QED BY <1>7, <2>0, <2>3, <2>4, <2>5, FrameType DEF TramaEvento, NuevaTrama, ReplayType
<1>8. CASE TramaFyh BY <1>8 DEF TramaFyh
<1>9. CASE TramaWcom BY <1>9 DEF TramaWcom
<1>10. CASE TramaSalir
    <2>1. mandar' \in [Colas -> SUBSET Layers]
        <3>1. CASE mandar' = mandar BY <3>1
        <3>2. CASE Poner("mandarPanico", 0) BY <3>2 DEF Poner
        <3> QED BY <1>10, <3>1, <3>2 DEF TramaSalir
    <2>2. /\ tramas' \in 0..MaxTramas /\ step' = "dispatch" /\ enProg' = FALSE
          /\ UNCHANGED <<wcom, pedidos, estadoAlarma, modo, teclas, cambio, fyh,
                         procesando, replay, eventos>>
        BY <1>10 DEF TramaSalir
    <2> QED BY <2>1, <2>2
<1> QED
    BY <1>1, <1>2, <1>3, <1>4, <1>5, <1>6, <1>7, <1>8, <1>9, <1>10 DEF Recibir

\* A message is attended to by one of the modules.
LEMMA AtenderType ==
    ASSUME TypeInv, NEW reg \in Registros, NEW l \in Layers, Atender(reg, l),
           UNCHANGED <<entorno, central, pedidos>>,
           wcom' \in Seq(Pedidos), step' = "handlers"
    PROVE  TypeInv'
<1> USE LayersAssumption, BoundsAssumption DEF TypeInv, TypeOK, CountsBounded, entorno, central
<1>1. CASE /\ KeysType'
           /\ cambioModo' \in [Layers -> SUBSET Modos]
           /\ codigo' \in [para : Layers, largo : {0, CodeLen}]
           /\ procesando' \subseteq procesando \cup {"setEstado", "setInclusion"}
           /\ UNCHANGED <<mandar, fyh, replay, eventos>>
    BY <1>1, SMTT(30) DEF KeysType, Flags
<1>2. CASE SetEstado(reg, l)
    <2>1. CASE ConCodigo(l)
        <3>1. KeysType' BY <2>1, CargarType, SMTT(30) DEF ConCodigo
        <3>2. UNCHANGED <<cambioModo, codigo>> BY <2>1 DEF ConCodigo, cambio
        <3> QED BY <1>1, <2>1, <3>1, <3>2 DEF ConCodigo
    <2>2. ASSUME NEW m \in {"estoy", "meVoy"}, CambiarModo(l, m) PROVE TypeInv'
        BY <1>1, <2>2, CargarType DEF CambiarModo, Modos
    <2> QED BY <1>2, <2>1, <2>2 DEF SetEstado, ActivarEnModo
<1>3. CASE SetInclusion(reg, l) BY <1>1, <1>3, CargarType DEF SetInclusion, cambio
<1>4. CASE SetModo(reg, l)
    <2>1. KeysType' BY <1>4, CargarType DEF SetModo
    <2>2. cambioModo' \in [Layers -> SUBSET Modos]
        <3>1. PICK m \in Modos : cambioModo' = [cambioModo EXCEPT ![l] = @ \cup {m}]
            BY <1>4 DEF SetModo, Modos
        <3> QED BY <3>1
    <2>3. codigo' \in [para : Layers, largo : {0, CodeLen}]
        <3>1. codigo' = [para |-> codigo.para, largo |-> 0] BY <1>4 DEF SetModo
        <3> QED BY <3>1
    <2> QED BY <1>1, <1>4, <2>1, <2>2, <2>3 DEF SetModo
<1>5. ASSUME NEW c \in Colas, Poner(c, l) PROVE mandar' \in [Colas -> SUBSET Layers]
    BY <1>5 DEF Poner
<1>6. CASE ResetMemoria(reg, l) BY <1>5, <1>6 DEF ResetMemoria, teclas, cambio, Colas
<1>7. CASE Disparar(reg, l) BY <1>5, <1>7 DEF Disparar, teclas, cambio, Colas
<1>8. CASE GetEventos(reg, l) BY <1>5, <1>8, SMTT(30) DEF GetEventos, teclas, cambio, Colas, Flags
<1>9. CASE GetReplay(reg, l) BY <1>5, <1>9, SMTT(30) DEF GetReplay, teclas, cambio, Colas, Flags
<1>10. CASE SetFechaHora(reg, l) BY <1>10 DEF SetFechaHora, teclas, cambio, Flags
<1>11. CASE Rechazar(reg, l) BY <1>11, ZenonT(40) DEF Rechazar, teclas, cambio
<1> QED BY <1>2, <1>3, <1>4, <1>6, <1>7, <1>8, <1>9, <1>10, <1>11 DEF Atender

LEMMA TypeInvStep == TypeInv /\ [Next]_vars => TypeInv'
<1> SUFFICES ASSUME TypeInv, [Next]_vars PROVE TypeInv'
    OBVIOUS
<1>1. CASE Recibir BY <1>1, RecibirType
<1>2. CASE Dispatch
    <2>1. wcom \in Seq(Pedidos) BY DEF TypeInv, TypeOK
    <2>2. /\ Head(wcom).reg \in Registros /\ Head(wcom).part \in Layers
          /\ Tail(wcom) \in Seq(Pedidos)
        BY <1>2, <2>1, PedidosAssumption DEF Dispatch
    <2> QED BY <1>2, <2>2, AtenderType DEF Dispatch, entorno
<1> USE LayersAssumption, BoundsAssumption
    DEF TypeInv, TypeOK, CountsBounded, entorno, central, teclas, cambio
<1>3. CASE NoDispatch BY <1>3 DEF NoDispatch
<1>4. CASE PatronSaca BY <1>4 DEF PatronSaca
<1>5. CASE ProgVence BY <1>5 DEF ProgVence
<1>6. CASE DeterminarFin BY <1>6 DEF DeterminarFin
<1>7. CASE BusOcupado BY <1>7 DEF BusOcupado, FinDelPaso
<1>8. ASSUME NEW c \in Colas, Sacar(c) PROVE TypeInv'
    <2>1. mandar' \in [Colas -> SUBSET Layers] BY <1>8 DEF Sacar
    <2> QED BY <1>8, <2>1 DEF Sacar, FinDelPaso
<1>9. CASE SacarPedido
    <2>1. \A i \in 1..3 : Antes[i] \in Colas BY DEF Antes, Colas
    <2> QED BY <1>8, <1>9, <2>1 DEF SacarPedido
<1>10. CASE SacarTecla
    <2>1. mandarTeclas' \subseteq mandarTeclas /\ ptrTeclas' \in Nat BY <1>10 DEF SacarTecla
    <2> QED BY <1>10, <2>1, ZenonT(40) DEF SacarTecla, FinDelPaso
<1>11. CASE SacarFyh BY <1>11 DEF SacarFyh, FinDelPaso
<1>12. CASE SacarPanico BY <1>8, <1>12 DEF SacarPanico, Colas
<1>13. CASE Tick
    <2>1. /\ replay'.en => replay.en
          /\ replay' \in [en : BOOLEAN, timer : 0..Timeout, index : 0..ReplayZones]
          /\ replay'.index = replay.index
        <3>1. replay' = [en |-> replay.en /\ replay.timer # 1, timer |-> LessOne(replay.timer),
                         index |-> replay.index]
            BY <1>13 DEF Tick
        <3>2. LessOne(replay.timer) \in 0..Timeout BY DEF LessOne
        <3> QED BY <3>1, <3>2
    <2>2. /\ eventos' \in [timer : 0..Timeout, bytes : 0..EventBytes,
                           es9108 : BOOLEAN, mande38368 : BOOLEAN]
          /\ eventos'.bytes = eventos.bytes
        <3>1. eventos' = [timer |-> LessOne(eventos.timer), bytes |-> eventos.bytes,
                          es9108 |-> eventos.es9108, mande38368 |-> eventos'.mande38368]
            BY <1>13 DEF Tick
        <3>2. LessOne(eventos.timer) \in 0..Timeout BY DEF LessOne
        <3>3. eventos'.mande38368 \in BOOLEAN BY <1>13 DEF Tick, SacaEvent
        <3> QED BY <3>1, <3>2, <3>3
    <2>3. KeysType'
        <3>1. CASE SacaEvent BY <1>13, <3>1, CargarType DEF Tick
        <3>2. CASE ~SacaEvent BY <1>13, <3>2 DEF Tick, KeysType
        <3> QED BY <3>1, <3>2
    <2> QED BY <1>13, <2>1, <2>2, <2>3 DEF Tick, KeysType
<1>14. CASE ServerSends
    <2>1. wcom' \in Seq(Pedidos) BY <1>14 DEF ServerSends
    <2> QED BY <1>14, <2>1 DEF ServerSends
<1>15. CASE UNCHANGED vars BY <1>15 DEF vars
<1> QED
    BY <1>1, <1>2, <1>3, <1>4, <1>5, <1>6, <1>7, <1>9, <1>10, <1>11, <1>12, <1>13, <1>14, <1>15
    DEF Next

\* Type correctness, with any partitions, messages and frames: in particular the zones of
\* a replay and the bytes of a log never go beyond the arrays that hold them, since the
\* last one clears the flag on which the next would be taken (alarmMonitor.c:1866-1871,
\* 2177).
THEOREM DispatchTypeCorrect == Spec => []TypeOK
<1>1. TypeInv => TypeOK BY DEF TypeInv
<1> QED BY TypeInit, TypeInvStep, <1>1, PTL DEF Spec
=============================================================================
