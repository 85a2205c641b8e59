------------------------- MODULE ListenerSetupProofs -------------------------
(***************************************************************************)
(* Proofs, for every rmem_max, every kernel minimum and MSS range and every *)
(* set of requested tunings, that the socket options do_socket_setup()     *)
(* leaves on the sockets of start_listening() are never silently wrong,    *)
(* and that with CAP_NET_ADMIN the buffer sizes are exact.  The argument   *)
(* is about the pure functions of SocketOptions: one set_and_verify_sockopt *)
(* attempt writes only its own field and only adds its own name to the      *)
(* warnings; a buffer size reads back as twice the request exactly when it  *)
(* was stored so, because the kernel only ever stores even sizes (the      *)
(* minima are even); later attempts leave earlier fields alone.            *)
(***************************************************************************)
EXTENDS ListenerSetup, DualStackListenerProofs

USE SockoptAssumption, TuningAssumption

\* the option fields of a socket
FieldNames == {"maxseg", "nodelay", "rcvbuf", "sndbuf", "reuseaddr", "tos"}

\* the record do_socket_setup threads through its calls
St == [k : KOpts, warned : SUBSET Opts, abort : BOOLEAN]

\* what reading option o back must give after asking for v
Want(o, v) == IF o \in BufferOpts THEN 2 * v ELSE v

\* b follows a: typed, no warning withdrawn, and only the fields in F changed
Later(a, b, F) ==
    /\ b \in St
    /\ a.warned \subseteq b.warned
    /\ \A g \in FieldNames \ F : b.k[g] = a.k[g]

LEMMA FieldType == \A o \in Opts : Field(o) \in FieldNames
BY DEF Opts, Field, FieldNames

LEMMA LaterRefl ==
    ASSUME NEW a \in St, NEW F PROVE Later(a, a, F)
BY DEF Later

LEMMA LaterTrans ==
    ASSUME NEW a, NEW b, NEW c, NEW F, NEW G,
           Later(a, b, F), Later(b, c, G)
    PROVE  Later(a, c, F \cup G)
BY DEF Later

\* what the kernel stores is -1 or a natural number, and an even one for a
\* buffer size
LEMMA StoredShape ==
    ASSUME NEW o \in Opts, NEW v \in Nat, NEW stream \in BOOLEAN,
           NEW pv \in BOOLEAN
    PROVE  LET s == KernelStores(o, v, stream, pv)
           IN  /\ s \in Nat \cup {-1}
               /\ o \in BufferOpts /\ s # -1 => s % 2 = 0
BY DEF KernelStores, Opts, BufferOpts, TcpOpts, Clamp, Cap

\* Try changes only the fields k and warned of the record it threads
LEMMA TryRecord ==
    ASSUME NEW sk \in St, NEW o \in Opts, NEW v, NEW stream, NEW pv,
           Try(sk, o, v, stream, pv).k \in KOpts
    PROVE  Try(sk, o, v, stream, pv) \in St
BY DEF Try, St, Opts

\* one set_and_verify_sockopt() attempt inside do_socket_setup
LEMMA TryStep ==
    ASSUME NEW sk \in St, NEW o \in Opts, NEW v \in Nat,
           NEW stream \in BOOLEAN, NEW pv \in BOOLEAN
    PROVE  LET r == Try(sk, o, v, stream, pv)
           IN  /\ Later(sk, r, {Field(o)})
               /\ r.k[Field(o)] = Want(o, v) \/ o \in r.warned
<1> DEFINE s == KernelStores(o, v, stream, pv)
           k2 == [sk.k EXCEPT ![Field(o)] = s]
           r == Try(sk, o, v, stream, pv)
<1>1. s \in Nat \cup {-1} /\ (o \in BufferOpts /\ s # -1 => s % 2 = 0)
  BY StoredShape
<1>2. Field(o) \in FieldNames
  BY FieldType
<1>3. r.abort = sk.abort
  BY DEF Try, St
<1>4. CASE s = -1
  <2>1. r.k = sk.k /\ r.warned = sk.warned \cup {o}
    BY <1>4 DEF Try, SetAndVerify, St
  <2>2. r \in St
    BY <2>1, TryRecord DEF St
  <2>3. QED
    BY <1>3, <2>1, <2>2 DEF Later, St, Opts
<1>5. CASE s # -1
  <2>1. k2 \in KOpts
    BY <1>1, <1>2, <1>5 DEF St, KOpts, FieldNames
  <2>2. k2[Field(o)] = s
    BY <1>2 DEF St, KOpts, FieldNames
  <2>3. r.k = k2
    BY <1>5 DEF Try, SetAndVerify, St
  <2>4. CASE ReadsBackAsSet(o, v, s)
    <3>1. r.warned = sk.warned
      BY <1>5, <2>2, <2>4 DEF Try, SetAndVerify, St
    <3>2. s = Want(o, v)
      BY <1>1, <1>5, <2>4 DEF ReadsBackAsSet, Want
    <3>3. r \in St
      BY <2>1, <2>3, TryRecord
    <3>4. QED
      BY <1>3, <2>2, <2>3, <3>1, <3>2, <3>3, <1>2 DEF Later, St, KOpts, FieldNames
  <2>5. CASE ~ReadsBackAsSet(o, v, s)
    <3>1. r.warned = sk.warned \cup {o}
      BY <1>5, <2>2, <2>5 DEF Try, SetAndVerify, St
    <3>2. r \in St
      BY <2>1, <2>3, TryRecord
    <3>3. QED
      BY <1>3, <2>3, <3>1, <3>2, <1>2 DEF Later, St, KOpts, FieldNames, Opts
  <2>6. QED
    BY <2>4, <2>5
<1>6. QED
  BY <1>4, <1>5

\* an attempt the kernel accepts and that reads back right stores its value
\* and logs nothing
LEMMA TrySucceeds ==
    ASSUME NEW sk \in St, NEW o \in Opts, NEW v \in Nat,
           NEW stream \in BOOLEAN, NEW pv \in BOOLEAN,
           KernelStores(o, v, stream, pv) # -1,
           ReadsBackAsSet(o, v, KernelStores(o, v, stream, pv))
    PROVE  LET r == Try(sk, o, v, stream, pv)
           IN  /\ r.k[Field(o)] = KernelStores(o, v, stream, pv)
               /\ r.warned = sk.warned
<1>1. Field(o) \in FieldNames
  BY FieldType
<1>2. QED
  BY <1>1 DEF Try, SetAndVerify, St, KOpts, FieldNames

\* the smallest size the kernel stores for the buffer option o
MinFor(o) == IF o = "SO_RCVBUF" THEN MinRcvBuf ELSE MinSndBuf

\* the two buffer options and their FORCE variants
BufferPairs == {<<"SO_RCVBUF", "SO_RCVBUFFORCE">>, <<"SO_SNDBUF", "SO_SNDBUFFORCE">>}

\* a buffer size with its FORCE fallback: twice the request is stored, or
\* both attempts warned; with CAP_NET_ADMIN and a request at least half the
\* minimum it is always stored
LEMMA TryBufferStep ==
    ASSUME NEW sk \in St, NEW o, NEW force, <<o, force>> \in BufferPairs,
           NEW v \in Nat, NEW stream \in BOOLEAN, NEW pv \in BOOLEAN
    PROVE  LET r == TryBuffer(sk, o, force, v, stream, pv)
           IN  /\ Later(sk, r, {Field(o)})
               /\ r.k[Field(o)] = 2 * v \/ (o \in r.warned /\ force \in r.warned)
               /\ pv /\ 2 * v >= MinFor(o) => r.k[Field(o)] = 2 * v
<1> DEFINE s == Try(sk, o, v, stream, pv)
           r == TryBuffer(sk, o, force, v, stream, pv)
<1>1. o \in Opts /\ force \in Opts /\ o \in BufferOpts /\ force \in BufferOpts
      /\ Field(force) = Field(o)
  BY DEF BufferPairs, Opts, BufferOpts, Field
<1>2. Later(sk, s, {Field(o)}) /\ (s.k[Field(o)] = 2 * v \/ o \in s.warned)
  BY <1>1, TryStep DEF Want
<1>3. CASE o \notin s.warned
  <2>1. r = s
    BY <1>3 DEF TryBuffer
  <2>2. QED
    BY <1>2, <1>3, <2>1
<1>4. CASE o \in s.warned
  <2>1. r = Try(s, force, v, stream, pv)
    BY <1>4 DEF TryBuffer
  <2>2. s \in St
    BY <1>2 DEF Later
  <2>3. Later(s, r, {Field(o)}) /\ (r.k[Field(o)] = 2 * v \/ force \in r.warned)
    <3>1. LET q == Try(s, force, v, stream, pv)
          IN  /\ Later(s, q, {Field(force)})
              /\ q.k[Field(force)] = Want(force, v) \/ force \in q.warned
      BY <1>1, <2>2, TryStep
    <3>2. QED
      BY <1>1, <2>1, <3>1 DEF Want
  <2>4. Later(sk, r, {Field(o)})
    BY <1>2, <2>3, LaterTrans
  <2>5. o \in r.warned
    BY <1>4, <2>3 DEF Later
  <2>6. ASSUME pv, 2 * v >= MinFor(o) PROVE r.k[Field(o)] = 2 * v
    <3>1. KernelStores(force, v, stream, pv) = 2 * v
      BY <2>6 DEF KernelStores, BufferPairs, TcpOpts, Clamp, MinFor
    <3>2. ReadsBackAsSet(force, v, 2 * v)
      BY <1>1 DEF ReadsBackAsSet
    <3>3. QED
      BY <1>1, <2>1, <2>2, <3>1, <3>2, TrySucceeds
  <2>7. QED
    BY <2>3, <2>4, <2>5, <2>6
<1>5. ASSUME pv, 2 * v >= MinFor(o), o \notin s.warned PROVE r.k[Field(o)] = 2 * v
  BY <1>2, <1>5 DEF TryBuffer
<1>6. QED
  BY <1>3, <1>4, <1>5

\* set_dscp_socket_options() writes only the traffic class (or aborts)
LEMMA SetDscpStep ==
    ASSUME NEW sk \in St, NEW sock, NEW dscp \in 0..63
    PROVE  LET r == SetDscp(sk, sock, dscp)
           IN  /\ r \in St
               /\ r.warned = sk.warned
               /\ \A g \in FieldNames \ {"tos"} : r.k[g] = sk.k[g]
<1>1. CASE sock > 0
  <2>1. SetDscp(sk, sock, dscp) = [sk EXCEPT !.k.tos = dscp * 4]
    BY <1>1 DEF SetDscp
  <2>2. dscp * 4 \in Nat
    OBVIOUS
  <2>3. QED
    BY <2>1, <2>2 DEF St, KOpts, FieldNames
<1>2. CASE ~(sock > 0)
  <2>1. SetDscp(sk, sock, dscp) = [sk EXCEPT !.abort = TRUE]
    BY <1>2 DEF SetDscp
  <2>2. QED
    BY <2>1 DEF St, KOpts, FieldNames
<1>3. QED
  BY <1>1, <1>2

\* do_socket_setup() as start_listening calls it: every requested option
\* ends right or warned, and with CAP_NET_ADMIN the buffer sizes are exact
LEMMA SetupSound ==
    ASSUME tuning \in Tunings, priv \in BOOLEAN, sockopts \in SockOpts, NEW sock
    PROVE  LET r == DoSocketSetup(sock, tuning, ReuseAddr, sockopts.stream,
                                  priv, KDefault)
           IN  /\ SetupRight(r.k, r.warned) /\ (priv => PrivilegedExact(r.k))
               /\ r \in St
<1> DEFINE t == tuning
           stream == sockopts.stream
           s0 == [k |-> KDefault, warned |-> {}, abort |-> FALSE]
           s1 == IF t.mss > 0
                 THEN Try(s0, "TCP_MAXSEG", t.mss, stream, priv) ELSE s0
           s2 == IF t.nagle # 0
                 THEN Try(s1, "TCP_NODELAY", t.nagle, stream, priv) ELSE s1
           s3 == IF t.rcvbuf > 0
                 THEN TryBuffer(s2, "SO_RCVBUF", "SO_RCVBUFFORCE", t.rcvbuf,
                                stream, priv)
                 ELSE s2
           s4 == IF t.sndbuf > 0
                 THEN TryBuffer(s3, "SO_SNDBUF", "SO_SNDBUFFORCE", t.sndbuf,
                                stream, priv)
                 ELSE s3
           s5 == IF ReuseAddr # 0
                 THEN Try(s4, "SO_REUSEADDR", ReuseAddr, stream, priv) ELSE s4
           r == DoSocketSetup(sock, tuning, ReuseAddr, sockopts.stream, priv,
                              KDefault)
<1>0. /\ t.mss \in Nat /\ t.nagle \in {0, 1} /\ t.rcvbuf \in Nat
      /\ t.sndbuf \in Nat /\ t.dscp \in 0..63
      /\ stream \in BOOLEAN /\ ReuseAddr \in {0, 1}
  BY DEF SockOpts, ReuseAddr
<1>1. r = IF t.dscp # 0 THEN SetDscp(s5, sock, t.dscp) ELSE s5
  BY DEF DoSocketSetup
<1>2. s0 \in St
  BY DEF St, KDefault, KOpts
<1> HIDE DEF s0, s1, s2, s3, s4, s5, r
<1>3. Later(s0, s1, {"maxseg"})
      /\ (t.mss > 0 => s1.k.maxseg = t.mss \/ "TCP_MAXSEG" \in s1.warned)
  <2>1. CASE t.mss > 0
    <3>1. s1 = Try(s0, "TCP_MAXSEG", t.mss, stream, priv)
      BY <2>1 DEF s1
    <3>2. "TCP_MAXSEG" \in Opts
      BY DEF Opts
    <3>3. LET q == Try(s0, "TCP_MAXSEG", t.mss, stream, priv)
          IN  /\ Later(s0, q, {Field("TCP_MAXSEG")})
              /\ q.k[Field("TCP_MAXSEG")] = Want("TCP_MAXSEG", t.mss)
                 \/ "TCP_MAXSEG" \in q.warned
      BY <1>0, <1>2, <3>2, TryStep
    <3>4. QED
      BY <3>1, <3>3 DEF Field, Want, BufferOpts
  <2>2. CASE ~(t.mss > 0)
    BY <1>2, <2>2, LaterRefl DEF s1
  <2>3. QED
    BY <2>1, <2>2
<1>4. Later(s1, s2, {"nodelay"})
      /\ (t.nagle # 0 => s2.k.nodelay = t.nagle \/ "TCP_NODELAY" \in s2.warned)
  <2>1. s1 \in St
    BY <1>3 DEF Later
  <2>2. CASE t.nagle # 0
    <3>1. s2 = Try(s1, "TCP_NODELAY", t.nagle, stream, priv)
      BY <2>2 DEF s2
    <3>2. "TCP_NODELAY" \in Opts /\ t.nagle \in Nat
      BY <1>0 DEF Opts
    <3>3. LET q == Try(s1, "TCP_NODELAY", t.nagle, stream, priv)
          IN  /\ Later(s1, q, {Field("TCP_NODELAY")})
              /\ q.k[Field("TCP_NODELAY")] = Want("TCP_NODELAY", t.nagle)
                 \/ "TCP_NODELAY" \in q.warned
      BY <1>0, <2>1, <3>2, TryStep
    <3>4. QED
      BY <3>1, <3>3 DEF Field, Want, BufferOpts
  <2>3. CASE t.nagle = 0
    BY <2>1, <2>3, LaterRefl DEF s2
  <2>4. QED
    BY <2>2, <2>3
<1>5. Later(s2, s3, {"rcvbuf"})
      /\ (t.rcvbuf > 0 => \/ s3.k.rcvbuf = 2 * t.rcvbuf
                          \/ {"SO_RCVBUF", "SO_RCVBUFFORCE"} \subseteq s3.warned)
      /\ (t.rcvbuf > 0 /\ priv /\ 2 * t.rcvbuf >= MinRcvBuf
              => s3.k.rcvbuf = 2 * t.rcvbuf)
  <2>1. s2 \in St
    BY <1>4 DEF Later
  <2>2. CASE t.rcvbuf > 0
    <3>1. s3 = TryBuffer(s2, "SO_RCVBUF", "SO_RCVBUFFORCE", t.rcvbuf, stream, priv)
      BY <2>2 DEF s3
    <3>2. <<"SO_RCVBUF", "SO_RCVBUFFORCE">> \in BufferPairs
      BY DEF BufferPairs
    <3>3. LET q == TryBuffer(s2, "SO_RCVBUF", "SO_RCVBUFFORCE", t.rcvbuf, stream, priv)
          IN  /\ Later(s2, q, {Field("SO_RCVBUF")})
              /\ q.k[Field("SO_RCVBUF")] = 2 * t.rcvbuf
                 \/ ("SO_RCVBUF" \in q.warned /\ "SO_RCVBUFFORCE" \in q.warned)
              /\ priv /\ 2 * t.rcvbuf >= MinFor("SO_RCVBUF")
                 => q.k[Field("SO_RCVBUF")] = 2 * t.rcvbuf
      <4>1. s2 \in St /\ t.rcvbuf \in Nat /\ stream \in BOOLEAN /\ priv \in BOOLEAN
        BY <1>0, <2>1
      <4>2. QED
        BY <3>2, <4>1, TryBufferStep, SMTT(40)
    <3>4. QED
      BY <3>1, <3>3 DEF Field, MinFor
  <2>3. CASE ~(t.rcvbuf > 0)
    BY <2>1, <2>3, LaterRefl DEF s3
  <2>4. QED
    BY <2>2, <2>3
<1>6. Later(s3, s4, {"sndbuf"})
      /\ (t.sndbuf > 0 => \/ s4.k.sndbuf = 2 * t.sndbuf
                          \/ {"SO_SNDBUF", "SO_SNDBUFFORCE"} \subseteq s4.warned)
      /\ (t.sndbuf > 0 /\ priv /\ 2 * t.sndbuf >= MinSndBuf
              => s4.k.sndbuf = 2 * t.sndbuf)
  <2>1. s3 \in St
    BY <1>5 DEF Later
  <2>2. CASE t.sndbuf > 0
    <3>1. s4 = TryBuffer(s3, "SO_SNDBUF", "SO_SNDBUFFORCE", t.sndbuf, stream, priv)
      BY <2>2 DEF s4
    <3>2. <<"SO_SNDBUF", "SO_SNDBUFFORCE">> \in BufferPairs
      BY DEF BufferPairs
    <3>3. LET q == TryBuffer(s3, "SO_SNDBUF", "SO_SNDBUFFORCE", t.sndbuf, stream, priv)
          IN  /\ Later(s3, q, {Field("SO_SNDBUF")})
              /\ q.k[Field("SO_SNDBUF")] = 2 * t.sndbuf
                 \/ ("SO_SNDBUF" \in q.warned /\ "SO_SNDBUFFORCE" \in q.warned)
              /\ priv /\ 2 * t.sndbuf >= MinFor("SO_SNDBUF")
                 => q.k[Field("SO_SNDBUF")] = 2 * t.sndbuf
      <4>1. s3 \in St /\ t.sndbuf \in Nat /\ stream \in BOOLEAN /\ priv \in BOOLEAN
        BY <1>0, <2>1
      <4>2. QED
        BY <3>2, <4>1, TryBufferStep, SMTT(40)
    <3>4. QED
      BY <3>1, <3>3 DEF Field, MinFor
  <2>3. CASE ~(t.sndbuf > 0)
    BY <2>1, <2>3, LaterRefl DEF s4
  <2>4. QED
    BY <2>2, <2>3
<1>7. Later(s4, s5, {"reuseaddr"})
      /\ (ReuseAddr # 0 => s5.k.reuseaddr = ReuseAddr \/ "SO_REUSEADDR" \in s5.warned)
  <2>1. s4 \in St
    BY <1>6 DEF Later
  <2>2. CASE ReuseAddr # 0
    <3>1. s5 = Try(s4, "SO_REUSEADDR", ReuseAddr, stream, priv)
      BY <2>2 DEF s5
    <3>2. "SO_REUSEADDR" \in Opts /\ ReuseAddr \in Nat
      BY <1>0 DEF Opts
    <3>3. LET q == Try(s4, "SO_REUSEADDR", ReuseAddr, stream, priv)
          IN  /\ Later(s4, q, {Field("SO_REUSEADDR")})
              /\ q.k[Field("SO_REUSEADDR")] = Want("SO_REUSEADDR", ReuseAddr)
                 \/ "SO_REUSEADDR" \in q.warned
      BY <1>0, <2>1, <3>2, TryStep
    <3>4. QED
      BY <3>1, <3>3 DEF Field, Want, BufferOpts
  <2>3. CASE ReuseAddr = 0
    BY <2>1, <2>3, LaterRefl DEF s5
  <2>4. QED
    BY <2>2, <2>3
<1>8. Later(s5, r, {"tos"})
  <2>1. s5 \in St
    BY <1>7 DEF Later
  <2>2. CASE t.dscp # 0
    <3>1. r = SetDscp(s5, sock, t.dscp)
      BY <1>1, <2>2
    <3>2. LET q == SetDscp(s5, sock, t.dscp)
          IN  /\ q \in St
              /\ q.warned = s5.warned
              /\ \A g \in FieldNames \ {"tos"} : q.k[g] = s5.k[g]
      BY <1>0, <2>1, SetDscpStep
    <3>3. QED
      BY <3>1, <3>2 DEF Later
  <2>3. CASE t.dscp = 0
    BY <1>1, <2>1, <2>3, LaterRefl
  <2>4. QED
    BY <2>2, <2>3
<1>9. /\ Later(s1, r, {"nodelay", "rcvbuf", "sndbuf", "reuseaddr", "tos"})
      /\ Later(s2, r, {"rcvbuf", "sndbuf", "reuseaddr", "tos"})
      /\ Later(s3, r, {"sndbuf", "reuseaddr", "tos"})
      /\ Later(s4, r, {"reuseaddr", "tos"})
  <2>1. Later(s4, r, {"reuseaddr", "tos"})
    BY <1>7, <1>8 DEF Later, FieldNames
  <2>2. Later(s3, r, {"sndbuf", "reuseaddr", "tos"})
    BY <1>6, <2>1 DEF Later, FieldNames
  <2>3. Later(s2, r, {"rcvbuf", "sndbuf", "reuseaddr", "tos"})
    BY <1>5, <2>2 DEF Later, FieldNames
  <2>4. Later(s1, r, {"nodelay", "rcvbuf", "sndbuf", "reuseaddr", "tos"})
    BY <1>4, <2>3 DEF Later, FieldNames
  <2>5. QED
    BY <2>1, <2>2, <2>3, <2>4
<1>10. /\ r.k.maxseg = s1.k.maxseg /\ s1.warned \subseteq r.warned
       /\ r.k.nodelay = s2.k.nodelay /\ s2.warned \subseteq r.warned
       /\ r.k.rcvbuf = s3.k.rcvbuf /\ s3.warned \subseteq r.warned
       /\ r.k.sndbuf = s4.k.sndbuf /\ s4.warned \subseteq r.warned
       /\ r.k.reuseaddr = s5.k.reuseaddr /\ s5.warned \subseteq r.warned
  BY <1>8, <1>9 DEF Later, FieldNames
<1>11. SetupRight(r.k, r.warned)
  <2> SUFFICES ASSUME NEW o \in Requested
               PROVE  r.k[Field(o)] = Wanted(o) \/ Last(o, r.warned) \in r.warned
    BY DEF SetupRight
  <2>1. o \in {"TCP_MAXSEG", "TCP_NODELAY", "SO_RCVBUF", "SO_SNDBUF",
               "SO_REUSEADDR"} /\ Asked(o) # 0
    BY DEF Requested, Opts
  <2>2. CASE o = "TCP_MAXSEG"
    BY <1>0, <1>3, <1>10, <2>1, <2>2 DEF Asked, Wanted, Last, Field, BufferOpts
  <2>3. CASE o = "TCP_NODELAY"
    BY <1>0, <1>4, <1>10, <2>1, <2>3 DEF Asked, Wanted, Last, Field, BufferOpts
  <2>4. CASE o = "SO_RCVBUF"
    BY <1>0, <1>5, <1>10, <2>1, <2>4 DEF Asked, Wanted, Last, Field, BufferOpts
  <2>5. CASE o = "SO_SNDBUF"
    BY <1>0, <1>6, <1>10, <2>1, <2>5 DEF Asked, Wanted, Last, Field, BufferOpts
  <2>6. CASE o = "SO_REUSEADDR"
    BY <1>0, <1>7, <1>10, <2>1, <2>6 DEF Asked, Wanted, Last, Field, BufferOpts
  <2>7. QED
    BY <2>1, <2>2, <2>3, <2>4, <2>5, <2>6
<1>12. priv => PrivilegedExact(r.k)
  BY <1>0, <1>5, <1>6, <1>10 DEF PrivilegedExact
<1>13. QED
  BY <1>8, <1>11, <1>12 DEF r, Later

-----------------------------------------------------------------------------
(* The composed listener.  The request (sockopts, tuning, priv) is fixed    *)
(* for the whole run, and the option fields of a family are only written    *)
(* by do_socket_setup() in OpenV6Setup, so every family set up holds what   *)
(* SetupSound says of one call.                                             *)

\* the request never changes
LEMMA RequestFixed ==
    [LSNext]_lsVars => UNCHANGED <<sockopts, tuning, priv>>
BY DEF LSNext, ListenerWithSetup, OpenV4Setup, OpenV6Setup, OtherListenerStep,
       OtherProcess, OpenV4, OpenV6, BindDevice, BindV4, BindV6, ListenV4,
       ListenV6, CheckListening, Retry, lsVars, vars, setupVars

\* what SetupRight and PrivilegedExact require depends only on the request
LEMMA RightUnchanged ==
    ASSUME NEW k, NEW w, UNCHANGED <<sockopts, tuning, priv>>
    PROVE  /\ SetupRight(k, w)' = SetupRight(k, w)
           /\ PrivilegedExact(k)' = PrivilegedExact(k)
BY DEF SetupRight, Requested, Asked, Wanted, ReuseAddr, PrivilegedExact

\* the inductive invariant: the request is well typed and every family that
\* do_socket_setup ran on holds what it left
SetupInv ==
    /\ tuning \in Tunings
    /\ priv \in BOOLEAN
    /\ sockopts \in SockOpts
    /\ \A f \in setUp :
          SetupRight(kopt[f], warned[f]) /\ (priv => PrivilegedExact(kopt[f]))

LEMMA SetupInvInit == LSInit => SetupInv
BY DEF LSInit, Init, SetupInv, SockOpts

LEMMA SetupInvStep == SetupInv /\ [LSNext]_lsVars => SetupInv'
<1> SUFFICES ASSUME SetupInv, [LSNext]_lsVars PROVE SetupInv'
  OBVIOUS
<1>1. UNCHANGED <<sockopts, tuning, priv>>
  BY RequestFixed
<1>2. (tuning \in Tunings /\ priv \in BOOLEAN /\ sockopts \in SockOpts)'
  BY <1>1 DEF SetupInv
<1>3. ASSUME NEW f \in setUp',
             ~(kopt'[f] = kopt[f] /\ warned'[f] = warned[f] /\ f \in setUp)
      PROVE  SetupRight(kopt'[f], warned'[f])
             /\ (priv => PrivilegedExact(kopt'[f]))
  <2>1. OpenV6Setup /\ pc' = "device" /\ ~aborted
    <3>1. CASE OpenV4Setup
      BY <1>3, <3>1 DEF OpenV4Setup
    <3>2. CASE UNCHANGED setupVars
      BY <1>3, <3>2 DEF setupVars
    <3>3. CASE OpenV6Setup /\ pc' # "device"
      BY <1>3, <3>3 DEF OpenV6Setup
    <3>4. QED
      BY <3>1, <3>2, <3>3 DEF LSNext, ListenerWithSetup, OtherListenerStep,
                              lsVars
  <2>2. /\ kopt'[f] = SetupOf(f).k
        /\ warned'[f] = SetupOf(f).warned
    BY <1>3, <2>1 DEF OpenV6Setup
  <2>3. QED
    BY <2>2, SetupSound DEF SetupOf, SetupInv
<1>4. QED
  <2>1. \A f \in setUp' :
           SetupRight(kopt'[f], warned'[f]) /\ (priv => PrivilegedExact(kopt'[f]))
    BY <1>3 DEF SetupInv
  <2>2. \A f \in setUp' :
           (SetupRight(kopt[f], warned[f]) /\ (priv => PrivilegedExact(kopt[f])))'
    BY <1>1, <2>1, RightUnchanged
  <2>3. QED
    BY <1>2, <2>2 DEF SetupInv

\* The socket options do_socket_setup() leaves on the sockets start_listening
\* opened are never silently wrong (each requested value holds, or the
\* attempt that decided it warned), for every rmem_max, even kernel minima,
\* MSS range and set of requests.
THEOREM SetupCorrect == LSSpec => []SetupNeverSilentlyWrong
<1>1. SetupInv => SetupNeverSilentlyWrong
  BY DEF SetupInv, SetupNeverSilentlyWrong
<1>2. QED
  BY <1>1, SetupInvInit, SetupInvStep, PTL DEF LSSpec

\* With CAP_NET_ADMIN every buffer size at least half the kernel minimum
\* ends at exactly twice the request, whatever rmem_max is.
THEOREM BuffersExact == LSSpec => []PrivilegedBuffersExact
<1>1. SetupInv => PrivilegedBuffersExact
  BY DEF SetupInv, PrivilegedBuffersExact
<1>2. QED
  BY <1>1, SetupInvInit, SetupInvStep, PTL DEF LSSpec

-----------------------------------------------------------------------------
(* Type correctness of the composed listener: start_listening's variables  *)
(* stay typed by the descriptor invariant of DualStackListenerProofs, and  *)
(* do_socket_setup() returns a record of St (SetupSound).                  *)

\* the inductive strengthening of LSTypeOK
LSTInv ==
    /\ DescInv
    /\ SetupInv
    /\ kopt \in [Families -> KOpts]
    /\ warned \in [Families -> SUBSET Opts]
    /\ setUp \subseteq Families
    /\ aborted \in BOOLEAN

LEMMA LSTInvInit == LSInit => LSTInv
<1> SUFFICES ASSUME LSInit PROVE LSTInv
  OBVIOUS
<1>1. DescInv /\ SetupInv
  BY InitDesc, SetupInvInit DEF LSInit
<1>2. KDefault \in KOpts
  BY DEF KDefault, KOpts
<1>3. QED
  BY <1>1, <1>2 DEF LSInit, LSTInv

\* every step of the composed listener is a step of start_listening's model
LEMMA ListenerProjects == DescInv /\ [LSNext]_lsVars => DescInv'
<1> SUFFICES ASSUME [LSNext]_lsVars, DescInv PROVE DescInv'
  OBVIOUS
<1>1. CASE OpenV4Setup
  BY <1>1, OpenV4Desc DEF OpenV4Setup
<1>2. CASE OpenV6Setup
  BY <1>2, OpenV6Desc DEF OpenV6Setup
<1>3. CASE OtherListenerStep
  BY <1>3, BindDeviceDesc, BindV4Desc, BindV6Desc, ListenV4Desc, ListenV6Desc,
     CheckDesc, RetryDesc DEF OtherListenerStep
<1>4. CASE OtherProcess
  BY <1>4, OtherDesc
<1>5. CASE UNCHANGED lsVars
  BY <1>5, StutterDesc DEF lsVars
<1>6. QED
  BY <1>1, <1>2, <1>3, <1>4, <1>5 DEF LSNext, ListenerWithSetup

LEMMA LSTInvStep == LSTInv /\ [LSNext]_lsVars => LSTInv'
<1> SUFFICES ASSUME LSTInv, [LSNext]_lsVars PROVE LSTInv'
  OBVIOUS
<1>1. DescInv' /\ SetupInv'
  BY ListenerProjects, SetupInvStep DEF LSTInv
<1>2. CASE OpenV6Setup /\ pc' = "device"
  <2> DEFINE on == {f \in Families : sockets'[f] # NoSock}
  <2>1. \A f \in Families : SetupOf(f) \in St
    BY SetupSound DEF LSTInv, SetupInv, SetupOf
  <2>2. /\ kopt' = [f \in Families |-> IF f \in on THEN SetupOf(f).k ELSE kopt[f]]
        /\ warned' = [f \in Families |->
                        IF f \in on THEN SetupOf(f).warned ELSE warned[f]]
        /\ setUp' = on
        /\ aborted' = \E f \in on : SetupOf(f).abort
    BY <1>2 DEF OpenV6Setup
  <2>3. QED
    BY <1>1, <2>1, <2>2 DEF LSTInv, St
<1>3. CASE ~(OpenV6Setup /\ pc' = "device")
  <2>1. UNCHANGED <<kopt, warned, setUp, aborted>> \/ OpenV4Setup
    BY <1>3 DEF LSNext, ListenerWithSetup, OpenV6Setup, OtherListenerStep,
                lsVars, setupVars
  <2>2. KDefault \in KOpts
    BY DEF KDefault, KOpts
  <2>3. QED
    BY <1>1, <2>1, <2>2 DEF LSTInv, OpenV4Setup
<1>4. QED
  BY <1>2, <1>3

\* start_listening with do_socket_setup keeps every variable of its model
\* typed, for every rmem_max, kernel minimum, MSS range and set of requested
\* tunings (start_listening and do_socket_setup, serverlib.c 146-386).
THEOREM LSTypeCorrect == LSSpec => []LSTypeOK
<1>1. LSTInv => LSTypeOK
  BY DEF LSTInv, DescInv, SetupInv, LSTypeOK
<1>2. QED
  BY <1>1, LSTInvInit, LSTInvStep, PTL DEF LSSpec

-----------------------------------------------------------------------------
(* The composed listener is start_listening with do_socket_setup added:    *)
(* every step of it is a step of DualStackListener, so what was proved      *)
(* there about the retry loop holds here too.                               *)

LEMMA ListenerStep == [LSNext]_lsVars => [Next]_vars
<1> SUFFICES ASSUME [LSNext]_lsVars PROVE [Next]_vars
  OBVIOUS
<1>1. CASE OpenV4Setup \/ OpenV6Setup \/ OtherListenerStep
  BY <1>1 DEF OpenV4Setup, OpenV6Setup, OtherListenerStep, Next, Listener
<1>2. CASE OtherProcess
  BY <1>2 DEF Next
<1>3. CASE UNCHANGED lsVars
  BY <1>3 DEF lsVars
<1>4. QED
  BY <1>1, <1>2, <1>3 DEF LSNext, ListenerWithSetup

\* With do_socket_setup applied to the sockets, the retry loop around
\* start_listening still tries the ports in order, each once, and reports
\* EADDRINUSE only at portmax, for every port range, descriptor table and
\* set of tunings (serverlib.c 251-386, 446-465).
THEOREM LSRetryScanCorrect == LSSpec => []RetryScansInOrder
<1>1. LSInit => IInv
  <2> SUFFICES ASSUME LSInit PROVE IInv
    OBVIOUS
  <2>1. Init
    BY DEF LSInit
  <2>2. DescInv
    BY <2>1, InitDesc
  <2>3. Scan
    BY <2>1, PortAssumption DEF Init, Scan, Ports
  <2>4. QED
    BY <2>2, <2>3 DEF IInv
<1>2. IInv /\ [LSNext]_lsVars => IInv'
  <2> SUFFICES ASSUME IInv, [LSNext]_lsVars PROVE IInv'
    OBVIOUS
  <2>1. [Next]_vars
    BY ListenerStep
  <2>2. Scan'
    BY <2>1, ScanStep DEF IInv, DescInv
  <2>3. DescInv'
    BY ListenerProjects DEF IInv
  <2>4. QED
    BY <2>2, <2>3 DEF IInv
<1>3. IInv => RetryScansInOrder
  BY DEF IInv, Scan, RetryScansInOrder
<1>4. QED
  BY <1>1, <1>2, <1>3, PTL DEF LSSpec

=============================================================================
