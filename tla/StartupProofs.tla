--------------------------- MODULE StartupProofs ----------------------------
(***************************************************************************)
(* What holds from the agent's start to its first event for every          *)
(* environment, every event and every list of debug patterns.              *)
(*                                                                         *)
(* Control: main's place says whether the key has been checked and how far *)
(* the debug service is set up (KeyChecked, DebugSetUp), and nothing is    *)
(* sent before main is ready.  Data: what was sent is the handler's        *)
(* translation of the event on the wire (SentFromWire), so that what is    *)
(* said of it follows from lemmas about the two translations.              *)
(***************************************************************************)
EXTENDS Startup, SequenceTheorems, TLAPS

\* main is behind Validate.
Validated == main \in {"debug", "k8s", "sync", "handler", "ready"}

KeyChecked ==
    Validated /\ config.Endpoint = DefaultEndpoint => verified /\ config.APIKey # ""

\* How far the registrations are, and that serving comes after them.
DebugSetUp ==
    /\ urls \in Seq(STRING) /\ Len(urls) <= Len(Patterns)
    /\ \A i \in 1 .. Len(urls) : urls[i] = Patterns[i]
    /\ server # "off" =>
          /\ main \in {"k8s", "sync", "handler", "ready", "exited"}
          /\ urls = Patterns /\ expVars = {"cmdline", "memstats"}
    /\ index \in {<< >>, Patterns}

\* What is sent is made of the event, by the handler that was chosen.
SentFromWire ==
    /\ env \in Envs /\ config = NewConfig(env)
    /\ wire # Nothing => main = "ready" /\ wire \in Wire
    /\ wire = Nothing => sent = Nothing
    /\ wire # Nothing => sent = IF handler = "otel" THEN AsSpan ELSE AsLibhoney

IInv == KeyChecked /\ DebugSetUp /\ SentFromWire

LEMMA PatternsType == Patterns \in Seq(STRING)
BY StartupConstants, Zenon

LEMMA NowType == Now \in Int
BY StartupConstants, Zenon

LEMMA InitIInv == Init => IInv
<1> SUFFICES ASSUME Init PROVE IInv
  OBVIOUS
<1>1. Len(Patterns) \in Nat /\ urls = << >> /\ Len(urls) = 0 /\ urls \in Seq(STRING)
  <2>1. urls = << >>
    BY DEF Init
  <2>2. Len(Patterns) \in Nat
    BY PatternsType
  <2> QED
    BY <2>1, <2>2
<1>2. DebugSetUp
  BY <1>1 DEF Init, DebugSetUp
<1>3. KeyChecked /\ SentFromWire
  BY DEF Init, KeyChecked, Validated, SentFromWire
<1> QED
  BY <1>2, <1>3 DEF IInv

LEMMA KeyStep == IInv /\ [Next]_vars => KeyChecked'
<1> SUFFICES ASSUME IInv, [Next]_vars PROVE KeyChecked'
  OBVIOUS
<1> USE DEF KeyChecked, Validated
<1>0. KeyChecked
  BY DEF IInv
<1>1. CASE ValidateConfig
  BY <1>1 DEF ValidateConfig, Validate
<1>2. CASE SetupLogging \/ SetupK8s \/ Synced \/ NewEventHandler \/ Killed
  BY <1>0, <1>2 DEF SetupLogging, SetupK8s, Synced, NewEventHandler, Killed
<1>3. CASE HandleFunc \/ PublishNext \/ Serve \/ Bind \/ ServeIndex
  BY <1>0, <1>3 DEF HandleFunc, PublishNext, Publish, Serve, Bind, ServeIndex
<1>4. CASE HandleEvent \/ LogAssemblerStats \/ UNCHANGED vars
  <2>1. UNCHANGED <<main, config, verified>>
    BY <1>4 DEF HandleEvent, LogAssemblerStats, vars
  <2> QED
    BY <1>0, <2>1
<1> QED
  BY <1>1, <1>2, <1>3, <1>4 DEF Next, Main

LEMMA DebugStep == IInv /\ [Next]_vars => DebugSetUp'
<1> SUFFICES ASSUME IInv, [Next]_vars PROVE DebugSetUp'
  OBVIOUS
<1>0. DebugSetUp /\ Patterns \in Seq(STRING)
  BY PatternsType DEF IInv
<1>1. CASE HandleFunc
  <2>1. /\ main = "debug" /\ server = "off" /\ Len(urls) < Len(Patterns)
        /\ urls' = Append(urls, Patterns[Len(urls) + 1])
        /\ UNCHANGED <<main, expVars, server, index>>
    BY <1>0, <1>1 DEF HandleFunc, DebugSetUp
  <2>2. Patterns[Len(urls) + 1] \in STRING /\ Len(urls) \in Nat
    BY <1>0, <2>1 DEF DebugSetUp
  <2>3. /\ urls' \in Seq(STRING) /\ Len(urls') = Len(urls) + 1
        /\ \A i \in 1 .. Len(urls) : urls'[i] = urls[i]
        /\ urls'[Len(urls) + 1] = Patterns[Len(urls) + 1]
    BY <1>0, <2>1, <2>2, AppendProperties DEF DebugSetUp
  <2>4. Len(urls') <= Len(Patterns) /\ \A i \in 1 .. Len(urls') : urls'[i] = Patterns[i]
    BY <1>0, <2>1, <2>2, <2>3 DEF DebugSetUp
  <2> QED
    BY <1>0, <2>1, <2>3, <2>4 DEF DebugSetUp
<1>2. CASE PublishNext
  BY <1>0, <1>2 DEF PublishNext, Publish, DebugSetUp
<1>3. CASE Serve
  <2>1. urls \in Seq(STRING) /\ Len(urls) = Len(Patterns)
        /\ \A i \in 1 .. Len(urls) : urls[i] = Patterns[i]
    BY <1>0, <1>3 DEF Serve, DebugSetUp
  <2>2. urls = Patterns
    BY <1>0, <2>1, SeqEqual
  <2> QED
    BY <1>0, <1>3, <2>2 DEF Serve, DebugSetUp
<1>4. CASE Bind \/ ServeIndex
  BY <1>0, <1>4 DEF Bind, ServeIndex, DebugSetUp
<1>5. CASE SetupLogging \/ ValidateConfig \/ SetupK8s \/ Synced \/ NewEventHandler \/ Killed
  BY <1>0, <1>5 DEF SetupLogging, ValidateConfig, SetupK8s, Synced, NewEventHandler, Killed,
                    debugVars, DebugSetUp
<1>6. CASE HandleEvent \/ LogAssemblerStats \/ UNCHANGED vars
  BY <1>0, <1>6 DEF HandleEvent, LogAssemblerStats, vars, debugVars, DebugSetUp
<1> QED
  BY <1>1, <1>2, <1>3, <1>4, <1>5, <1>6 DEF Next, Main

LEMMA SentStep == IInv /\ [Next]_vars => SentFromWire'
<1> SUFFICES ASSUME IInv, [Next]_vars PROVE SentFromWire'
  OBVIOUS
<1> USE DEF SentFromWire
<1>0. SentFromWire
  BY DEF IInv
<1>1. CASE HandleEvent
  <2>1. /\ main = "ready" /\ wire' \in Wire /\ UNCHANGED <<env, main, config, handler>>
        /\ sent' = IF handler' = "otel" THEN AsSpan' ELSE AsLibhoney'
    BY <1>1 DEF HandleEvent, AsSpan, AsLibhoney
  <2>2. wire' # Nothing
    BY <2>1, StartupConstants DEF Nothing
  <2> QED
    BY <1>0, <2>1, <2>2
<1>2. ASSUME UNCHANGED <<env, config, wire, sent>>,
             wire = Nothing \/ UNCHANGED <<main, handler>>
      PROVE  SentFromWire'
  BY <1>0, <1>2 DEF AsSpan, AsLibhoney
<1>3. CASE SetupLogging \/ ValidateConfig \/ SetupK8s \/ Synced \/ NewEventHandler \/ Killed
  BY <1>0, <1>2, <1>3 DEF SetupLogging, ValidateConfig, SetupK8s, Synced, NewEventHandler, Killed,
                    sentVars
<1>4. CASE HandleFunc \/ PublishNext \/ Serve \/ Bind \/ ServeIndex
  BY <1>0, <1>2, <1>4 DEF HandleFunc, PublishNext, Publish, Serve, Bind, ServeIndex, sentVars
<1>5. CASE LogAssemblerStats \/ UNCHANGED vars
  BY <1>0, <1>2, <1>5 DEF LogAssemblerStats, vars, sentVars
<1> QED
  BY <1>1, <1>3, <1>4, <1>5 DEF Next, Main

LEMMA Invariance == Spec => []IInv
<1>1. IInv /\ [Next]_vars => IInv'
  BY KeyStep, DebugStep, SentStep DEF IInv
<1> QED
  BY <1>1, InitIInv, PTL DEF Spec

(* Main passes Validate on every way to the handler, so that no event      *)
(* leaves for the API with a key it has not confirmed.                     *)
THEOREM KeyIsVerified == Spec => []EventsNeedVerifiedKey
<1>1. IInv => EventsNeedVerifiedKey
  BY DEF IInv, KeyChecked, Validated, SentFromWire, EventsNeedVerifiedKey
<1> QED
  BY <1>1, Invariance, PTL

(* The debug goroutine never serves an index that is not complete.         *)
THEOREM IndexComplete == Spec => []IndexIsComplete
<1>1. IInv => IndexIsComplete
  BY DEF IInv, DebugSetUp, IndexIsComplete
<1> QED
  BY <1>1, Invariance, PTL

-----------------------------------------------------------------------------
(* The two translations of an event, for every event and every             *)
(* configuration: the fields of the libhoney handler and the attributes of *)
(* the span agree but for what only one of them sends (Agree).  Fields are *)
(* merged one by one in both, so that agreement is carried through the     *)
(* merges; only the error field stands at different places.                *)

LEMMA MergeDef ==
    ASSUME NEW f, NEW g
    PROVE  /\ DOMAIN (f ++ g) = DOMAIN f \cup DOMAIN g
           /\ \A k \in DOMAIN f : (f ++ g)[k] = f[k]
           /\ \A k \in DOMAIN g : k \notin DOMAIN f => (f ++ g)[k] = g[k]
BY DEF ++

LEMMA MergeAssociative ==
    ASSUME NEW f, NEW g, NEW h PROVE (f ++ g) ++ h = f ++ (g ++ h)
BY DEF ++

LEMMA MergeCommutes ==
    ASSUME NEW f, NEW g, DOMAIN f \cap DOMAIN g = {} PROVE f ++ g = g ++ f
BY DEF ++

LEMMA FieldDef ==
    ASSUME NEW k, NEW v PROVE DOMAIN Field(k, v) = {k} /\ Field(k, v)[k] = v
BY DEF Field

\* What one handler says of an event and the other does not, or not so.
OneSided == {"name", "user_agent.original"}

\* Two sets of fields agree but for what only one of the handlers sends.
Agree(f, g) ==
    \A k : /\ k \in DOMAIN f /\ k \notin OneSided <=> k \in DOMAIN g /\ k \notin DualSent
           /\ k \in DOMAIN g /\ k \notin DualSent => g[k] = f[k]

LEMMA AgreeMerge ==
    ASSUME NEW f, NEW g, NEW p, NEW q, Agree(f, g), Agree(p, q)
    PROVE  Agree(f ++ p, g ++ q)
<1> DEFINE fp == f ++ p
           gq == g ++ q
<1>1. /\ DOMAIN fp = DOMAIN f \cup DOMAIN p
      /\ \A k \in DOMAIN f : fp[k] = f[k]
      /\ \A k \in DOMAIN p : k \notin DOMAIN f => fp[k] = p[k]
  BY MergeDef
<1>2. /\ DOMAIN gq = DOMAIN g \cup DOMAIN q
      /\ \A k \in DOMAIN g : gq[k] = g[k]
      /\ \A k \in DOMAIN q : k \notin DOMAIN g => gq[k] = q[k]
  BY MergeDef
<1> HIDE DEF fp, gq
<1>3. ASSUME NEW k
      PROVE  /\ k \in DOMAIN fp /\ k \notin OneSided
                <=> k \in DOMAIN gq /\ k \notin DualSent
             /\ k \in DOMAIN gq /\ k \notin DualSent => gq[k] = fp[k]
  <2>1. /\ k \in DOMAIN f /\ k \notin OneSided <=> k \in DOMAIN g /\ k \notin DualSent
        /\ k \in DOMAIN g /\ k \notin DualSent => g[k] = f[k]
    BY Zenon DEF Agree
  <2>2. /\ k \in DOMAIN p /\ k \notin OneSided <=> k \in DOMAIN q /\ k \notin DualSent
        /\ k \in DOMAIN q /\ k \notin DualSent => q[k] = p[k]
    BY Zenon DEF Agree
  <2> QED
    BY <1>1, <1>2, <2>1, <2>2
<1> QED
  BY <1>3 DEF Agree, fp, gq

LEMMA AgreeSelf ==
    ASSUME NEW f, DOMAIN f \cap (DualSent \cup OneSided) = {}
    PROVE  Agree(f, f)
BY DEF Agree

(* What only one of the handlers sends makes no difference.                *)
LEMMA AgreeOneSided ==
    ASSUME NEW f, NEW g, NEW h, Agree(f, g), DOMAIN h \subseteq OneSided
    PROVE  Agree(f ++ h, g) /\ Agree(h ++ f, g)
<1> DEFINE fh == f ++ h
           hf == h ++ f
<1>1. /\ DOMAIN fh = DOMAIN f \cup DOMAIN h /\ DOMAIN hf = DOMAIN h \cup DOMAIN f
      /\ \A k \in DOMAIN f : fh[k] = f[k]
      /\ \A k \in DOMAIN f : k \notin DOMAIN h => hf[k] = f[k]
  BY MergeDef
<1> HIDE DEF fh, hf
<1>2. ASSUME NEW k
      PROVE  /\ k \in DOMAIN fh /\ k \notin OneSided <=> k \in DOMAIN g /\ k \notin DualSent
             /\ k \in DOMAIN hf /\ k \notin OneSided <=> k \in DOMAIN g /\ k \notin DualSent
             /\ k \in DOMAIN g /\ k \notin DualSent => g[k] = fh[k] /\ g[k] = hf[k]
  BY <1>1, Zenon DEF Agree
<1> QED
  BY <1>2, Zenon DEF Agree, fh, hf

LEMMA AgreeDual ==
    ASSUME NEW f, NEW g, NEW h, Agree(f, g), DOMAIN h \subseteq DualSent
    PROVE  Agree(f, g ++ h)
<1> DEFINE gh == g ++ h
<1>1. /\ DOMAIN gh = DOMAIN g \cup DOMAIN h
      /\ \A k \in DOMAIN g : gh[k] = g[k]
  BY MergeDef
<1> HIDE DEF gh
<1>2. ASSUME NEW k
      PROVE  /\ k \in DOMAIN f /\ k \notin OneSided
                <=> k \in DOMAIN gh /\ k \notin DualSent
             /\ k \in DOMAIN gh /\ k \notin DualSent => gh[k] = f[k]
  BY <1>1, Zenon DEF Agree
<1> QED
  BY <1>2, Zenon DEF Agree, gh

LEMMA AgreeField ==
    ASSUME NEW v, NEW k, k \notin DualSent \cup OneSided
    PROVE  Agree(Field(k, v), Field(k, v))
<1>1. DOMAIN Field(k, v) = {k}
  BY FieldDef
<1> QED
  BY <1>1, AgreeSelf, Zenon

LEMMA DualField ==
    ASSUME NEW v, NEW k \in DualSent PROVE DOMAIN Field(k, v) \subseteq DualSent
<1>1. DOMAIN Field(k, v) = {k}
  BY FieldDef
<1> QED
  BY <1>1

(* The fields of a request in both handlers, of which some may be missing. *)
LEMMA RequestAgrees ==
    ASSUME NEW name, NEW method, NEW length, NEW ua,
           NEW P, DOMAIN P \subseteq {"url.path"}, NEW P2, DOMAIN P2 \subseteq {"http.target"}
    PROVE  Agree(Field("name", name) ++ Field("http.request.method", method)
                   ++ Field("user_agent.original", ua)
                   ++ Field("http.request.body.size", length) ++ P,
                 Field("http.request.method", method) ++ Field("http.method", method)
                   ++ Field("http.request.body.size", length)
                   ++ Field("http.request_content_length", length) ++ P ++ P2)
<1> DEFINE N == Field("name", name)
           M == Field("http.request.method", method)
           U == Field("user_agent.original", ua)
           S == Field("http.request.body.size", length)
           M2 == Field("http.method", method)
           S2 == Field("http.request_content_length", length)
<1>1. Agree(M, M) /\ Agree(S, S)
  BY AgreeField DEF DualSent, OneSided
<1>2. Agree(P, P) /\ DOMAIN P2 \subseteq DualSent
  BY AgreeSelf DEF DualSent, OneSided
<1>3. DOMAIN M2 \subseteq DualSent /\ DOMAIN S2 \subseteq DualSent
  BY DualField DEF DualSent
<1>4. DOMAIN N \subseteq OneSided /\ DOMAIN U \subseteq OneSided
  <2>1. DOMAIN N = {"name"} /\ DOMAIN U = {"user_agent.original"}
    BY FieldDef
  <2> QED
    BY <2>1 DEF OneSided
<1> HIDE DEF N, M, U, S, M2, S2
<1>5. Agree(N ++ M ++ U, M ++ M2)
  BY <1>1, <1>3, <1>4, AgreeOneSided, AgreeDual
<1>6. Agree(N ++ M ++ U ++ S, M ++ M2 ++ S ++ S2)
  BY <1>1, <1>3, <1>5, AgreeMerge, AgreeDual
<1>7. Agree(N ++ M ++ U ++ S ++ P, M ++ M2 ++ S ++ S2 ++ P ++ P2)
  BY <1>2, <1>6, AgreeMerge, AgreeDual
<1> QED
  BY <1>7 DEF N, M, U, S, M2, S2

(* The fields of a response in both handlers, written in different orders. *)
LEMMA ResponseAgrees ==
    ASSUME NEW status, NEW length,
           NEW E, DOMAIN E \subseteq {"error"}, NEW F, DOMAIN F \subseteq {"error"}
    PROVE  Agree(Field("http.response.status_code", status) ++ (E ++ F)
                   ++ Field("http.response.body.size", length),
                 Field("http.response.status_code", status) ++ Field("http.status_code", status)
                   ++ Field("http.response.body.size", length)
                   ++ Field("http.response_content_length", length) ++ E ++ F)
<1> DEFINE C == Field("http.response.status_code", status)
           L == Field("http.response.body.size", length)
           C2 == Field("http.status_code", status)
           L2 == Field("http.response_content_length", length)
<1>1. Agree(C, C) /\ Agree(L, L)
  BY AgreeField DEF DualSent, OneSided
<1>2. Agree(E, E) /\ Agree(F, F)
  BY AgreeSelf DEF DualSent, OneSided
<1>3. DOMAIN C2 \subseteq DualSent /\ DOMAIN L2 \subseteq DualSent
  BY DualField DEF DualSent
<1>4. DOMAIN (E ++ F) \cap DOMAIN L = {}
  <2>1. DOMAIN L = {"http.response.body.size"}
    BY FieldDef
  <2>2. DOMAIN (E ++ F) = DOMAIN E \cup DOMAIN F
    BY MergeDef
  <2> QED
    BY <2>1, <2>2
<1> HIDE DEF C, L, C2, L2
<1>5. C ++ (E ++ F) ++ L = C ++ L ++ E ++ F
  <2>1. C ++ (E ++ F) ++ L = C ++ ((E ++ F) ++ L)
    BY MergeAssociative
  <2>2. (E ++ F) ++ L = L ++ (E ++ F)
    BY <1>4, MergeCommutes
  <2>3. C ++ (L ++ (E ++ F)) = (C ++ L) ++ (E ++ F) /\ (C ++ L) ++ (E ++ F) = C ++ L ++ E ++ F
    BY MergeAssociative
  <2> QED
    BY <2>1, <2>2, <2>3
<1>6. Agree(C ++ L, C ++ C2 ++ L ++ L2)
  BY <1>1, <1>3, AgreeMerge, AgreeDual
<1>7. Agree(C ++ L ++ E ++ F, C ++ C2 ++ L ++ L2 ++ E ++ F)
  BY <1>2, <1>6, AgreeMerge
<1> QED
  BY <1>5, <1>7 DEF C, L, C2, L2

\* What the two handlers make of a request and of a response that are there.
RequestFields(c, q) ==
    Field("name", <<"HTTP", q.method>>)
    ++ Field("http.request.method", q.method)
    ++ Field("user_agent.original", Get(q.header, "User-Agent"))
    ++ Field("http.request.body.size", q.length) ++ PathField(c, q)
RequestAttrs(c, q) ==
    Field("http.request.method", q.method) ++ Field("http.method", q.method)
    ++ Field("http.request.body.size", q.length)
    ++ Field("http.request_content_length", q.length) ++ PathField(c, q)
    ++ FieldIf(c.IncludeRequestURL /\ q.uriValid, "http.target", q.path)
ResponseFields(r) ==
    Field("http.response.status_code", r.status) ++ ErrorField(r.status)
    ++ Field("http.response.body.size", r.length)
ResponseAttrs(r) ==
    Field("http.response.status_code", r.status) ++ Field("http.status_code", r.status)
    ++ Field("http.response.body.size", r.length)
    ++ Field("http.response_content_length", r.length)
    ++ FieldIf(r.status >= 500, "error", "HTTP server error")
    ++ FieldIf(r.status < 500 /\ r.status >= 400, "error", "HTTP client error")
HttpName == Field("name", <<"HTTP">>)
NoRequest  == Field("http.request.missing", "no request on this event")
NoResponse == Field("http.response.missing", "no response on this event")

LEMMA HttpParts ==
    ASSUME NEW c, NEW ev
    PROVE  /\ addHttpFields(c, ev)
                = (IF ev.request # Missing THEN RequestFields(c, ev.request) ELSE HttpName ++ NoRequest)
                  ++ (IF ev.response # Missing THEN ResponseFields(ev.response) ELSE NoResponse)
           /\ resolveHTTPAttributes(c, ev)
                = (IF ev.request # Missing THEN RequestAttrs(c, ev.request) ELSE NoRequest)
                  ++ (IF ev.response # Missing THEN ResponseAttrs(ev.response) ELSE NoResponse)
BY DEF addHttpFields, resolveHTTPAttributes, RequestFields, RequestAttrs, ResponseFields,
       ResponseAttrs, HttpName, NoRequest, NoResponse

(* The parts that depend on a condition have one key, or none.             *)
LEMMA PathKeys ==
    ASSUME NEW c, NEW q
    PROVE  /\ DOMAIN PathField(c, q) \subseteq {"url.path"}
           /\ ~c.IncludeRequestURL => DOMAIN PathField(c, q) = {}
           /\ DOMAIN FieldIf(c.IncludeRequestURL /\ q.uriValid, "http.target", q.path)
                  \subseteq {"http.target"}
BY DEF PathField, FieldIf, Field, NoFields

LEMMA ErrorKeys ==
    ASSUME NEW r
    PROVE  /\ DOMAIN FieldIf(r.status >= 500, "error", "HTTP server error") \subseteq {"error"}
           /\ DOMAIN FieldIf(r.status < 500 /\ r.status >= 400, "error", "HTTP client error")
                  \subseteq {"error"}
BY DEF FieldIf, Field, NoFields

LEMMA HttpFieldsAgree ==
    ASSUME NEW c, NEW ev PROVE Agree(addHttpFields(c, ev), resolveHTTPAttributes(c, ev))
<1>1. ASSUME NEW q PROVE Agree(RequestFields(c, q), RequestAttrs(c, q))
  <2> DEFINE P  == PathField(c, q)
             P2 == FieldIf(c.IncludeRequestURL /\ q.uriValid, "http.target", q.path)
             u  == Get(q.header, "User-Agent")
             n  == <<"HTTP", q.method>>
  <2>1. DOMAIN P \subseteq {"url.path"} /\ DOMAIN P2 \subseteq {"http.target"}
    BY PathKeys
  <2>2. /\ RequestFields(c, q) = Field("name", n) ++ Field("http.request.method", q.method)
                ++ Field("user_agent.original", u)
                ++ Field("http.request.body.size", q.length) ++ P
        /\ RequestAttrs(c, q) = Field("http.request.method", q.method)
                ++ Field("http.method", q.method)
                ++ Field("http.request.body.size", q.length)
                ++ Field("http.request_content_length", q.length) ++ P ++ P2
    BY DEF RequestFields, RequestAttrs
  <2> HIDE DEF P, P2, u, n
  <2> QED
    BY <2>1, <2>2, RequestAgrees
<1>2. ASSUME NEW r PROVE Agree(ResponseFields(r), ResponseAttrs(r))
  <2> DEFINE E == FieldIf(r.status >= 500, "error", "HTTP server error")
             F == FieldIf(r.status < 500 /\ r.status >= 400, "error", "HTTP client error")
  <2>1. DOMAIN E \subseteq {"error"} /\ DOMAIN F \subseteq {"error"}
    BY ErrorKeys
  <2>2. /\ ResponseFields(r) = Field("http.response.status_code", r.status) ++ (E ++ F)
                               ++ Field("http.response.body.size", r.length)
        /\ ResponseAttrs(r) = Field("http.response.status_code", r.status)
                   ++ Field("http.status_code", r.status)
                   ++ Field("http.response.body.size", r.length)
                   ++ Field("http.response_content_length", r.length) ++ E ++ F
    BY DEF ResponseFields, ResponseAttrs, ErrorField
  <2> HIDE DEF E, F
  <2> QED
    BY <2>1, <2>2, ResponseAgrees
<1>3. Agree(HttpName ++ NoRequest, NoRequest) /\ Agree(NoResponse, NoResponse)
  <2>1. Agree(NoRequest, NoRequest) /\ Agree(NoResponse, NoResponse)
    BY AgreeField DEF DualSent, OneSided, NoRequest, NoResponse
  <2>2. DOMAIN HttpName \subseteq OneSided
    <3>1. DOMAIN HttpName = {"name"}
      BY FieldDef DEF HttpName
    <3> QED
      BY <3>1 DEF OneSided
  <2> QED
    BY <2>1, <2>2, AgreeOneSided
<1>4. /\ Agree(IF ev.request # Missing THEN RequestFields(c, ev.request) ELSE HttpName ++ NoRequest,
               IF ev.request # Missing THEN RequestAttrs(c, ev.request) ELSE NoRequest)
      /\ Agree(IF ev.response # Missing THEN ResponseFields(ev.response) ELSE NoResponse,
               IF ev.response # Missing THEN ResponseAttrs(ev.response) ELSE NoResponse)
  BY <1>1, <1>2, <1>3
<1> QED
  BY <1>4, HttpParts, AgreeMerge

(* A key that no part has is not in the whole.                             *)
Without(f, k) == k \notin DOMAIN f

LEMMA WithoutMerge ==
    ASSUME NEW k, NEW f, NEW g, Without(f, k), Without(g, k)
    PROVE  Without(f ++ g, k)
BY MergeDef DEF Without

LEMMA WithoutField ==
    ASSUME NEW k, NEW j, NEW v, k # j PROVE Without(Field(j, v), k)
<1>1. DOMAIN Field(j, v) = {j}
  BY FieldDef
<1> QED
  BY <1>1 DEF Without

\* The keys a span has of the messages, but for the request's path.
OtherKeys == {"http.request.method", "http.request.body.size", "http.request.missing",
              "http.response.status_code", "http.response.body.size", "http.response.missing",
              "error"} \cup DualSent

LEMMA KeysOfHttpFields ==
    ASSUME NEW c, NEW ev, NEW k, k \notin OtherKeys, k = "url.path" => ~c.IncludeRequestURL
    PROVE  Without(resolveHTTPAttributes(c, ev), k)
<1>1. ASSUME NEW q PROVE Without(RequestAttrs(c, q), k)
  <2>1. /\ Without(Field("http.request.method", q.method), k)
        /\ Without(Field("http.method", q.method), k)
        /\ Without(Field("http.request.body.size", q.length), k)
        /\ Without(Field("http.request_content_length", q.length), k)
    BY WithoutField DEF OtherKeys, DualSent
  <2>2. /\ Without(PathField(c, q), k)
        /\ Without(FieldIf(c.IncludeRequestURL /\ q.uriValid, "http.target", q.path), k)
    BY PathKeys DEF Without, OtherKeys, DualSent
  <2> QED
    BY <2>1, <2>2, WithoutMerge, Zenon DEF RequestAttrs
<1>2. ASSUME NEW r PROVE Without(ResponseAttrs(r), k)
  <2>1. /\ Without(Field("http.response.status_code", r.status), k)
        /\ Without(Field("http.status_code", r.status), k)
        /\ Without(Field("http.response.body.size", r.length), k)
        /\ Without(Field("http.response_content_length", r.length), k)
    BY WithoutField DEF OtherKeys, DualSent
  <2> DEFINE E == FieldIf(r.status >= 500, "error", "HTTP server error")
             F == FieldIf(r.status < 500 /\ r.status >= 400, "error", "HTTP client error")
  <2>2. Without(E, k) /\ Without(F, k)
    <3>1. DOMAIN E \subseteq {"error"} /\ DOMAIN F \subseteq {"error"}
      BY ErrorKeys
    <3> QED
      BY <3>1 DEF Without, OtherKeys, DualSent
  <2>3. ResponseAttrs(r) = Field("http.response.status_code", r.status)
                   ++ Field("http.status_code", r.status)
                   ++ Field("http.response.body.size", r.length)
                   ++ Field("http.response_content_length", r.length) ++ E ++ F
    BY DEF ResponseAttrs
  <2> HIDE DEF E, F
  <2> QED
    BY <2>1, <2>2, <2>3, WithoutMerge
<1>3. Without(NoRequest, k) /\ Without(NoResponse, k)
  <2>1. DOMAIN NoRequest = {"http.request.missing"} /\ DOMAIN NoResponse = {"http.response.missing"}
    BY FieldDef DEF NoRequest, NoResponse
  <2> QED
    BY <2>1 DEF Without, OtherKeys, DualSent
<1>4. /\ Without(IF ev.request # Missing THEN RequestAttrs(c, ev.request) ELSE NoRequest,
                 k)
      /\ Without(IF ev.response # Missing THEN ResponseAttrs(ev.response) ELSE NoResponse,
                 k)
  BY <1>1, <1>2, <1>3
<1> QED
  BY <1>4, HttpParts, WithoutMerge, Zenon

(* The two fields of libhoney's event that the span has not, or not so.    *)
LEMMA OneSidedFields ==
    ASSUME NEW c, NEW ev
    PROVE  LET f == addHttpFields(c, ev)
           IN  /\ "name" \in DOMAIN f
               /\ f["name"] = IF ev.request # Missing THEN <<"HTTP", ev.request.method>> ELSE <<"HTTP">>
               /\ ev.request # Missing =>
                     /\ "user_agent.original" \in DOMAIN f
                     /\ f["user_agent.original"] = Get(ev.request.header, "User-Agent")
<1>1. ASSUME NEW v, NEW f
      PROVE  "name" \in DOMAIN (Field("name", v) ++ f) /\ (Field("name", v) ++ f)["name"] = v
  <2> DEFINE N == Field("name", v)
  <2>1. DOMAIN N = {"name"} /\ N["name"] = v
    BY FieldDef
  <2> HIDE DEF N
  <2>2. DOMAIN (N ++ f) = DOMAIN N \cup DOMAIN f /\ \A k \in DOMAIN N : (N ++ f)[k] = N[k]
    BY MergeDef
  <2> QED
    BY <2>1, <2>2 DEF N
<1>2. ASSUME NEW q
      PROVE  /\ "name" \in DOMAIN RequestFields(c, q)
             /\ RequestFields(c, q)["name"] = <<"HTTP", q.method>>
             /\ "user_agent.original" \in DOMAIN RequestFields(c, q)
             /\ RequestFields(c, q)["user_agent.original"] = Get(q.header, "User-Agent")
  <2> DEFINE N == Field("name", <<"HTTP", q.method>>)
             M == Field("http.request.method", q.method)
             U == Field("user_agent.original", Get(q.header, "User-Agent"))
             S == Field("http.request.body.size", q.length)
             P == PathField(c, q)
  <2>1. RequestFields(c, q) = N ++ (M ++ (U ++ (S ++ P)))
    BY MergeAssociative DEF RequestFields
  <2>2. /\ DOMAIN N = {"name"} /\ DOMAIN M = {"http.request.method"}
        /\ DOMAIN U = {"user_agent.original"}
        /\ N["name"] = <<"HTTP", q.method>>
        /\ U["user_agent.original"] = Get(q.header, "User-Agent")
    BY FieldDef
  <2> HIDE DEF N, M, U, S, P
  <2> DEFINE us  == U ++ (S ++ P)
             mus == M ++ us
             f   == N ++ mus
  <2>3. DOMAIN us = DOMAIN U \cup DOMAIN (S ++ P) /\ \A k \in DOMAIN U : us[k] = U[k]
    BY MergeDef
  <2> HIDE DEF us
  <2>4. DOMAIN mus = DOMAIN M \cup DOMAIN us
        /\ \A k \in DOMAIN us : k \notin DOMAIN M => mus[k] = us[k]
    BY MergeDef
  <2> HIDE DEF mus
  <2>5. /\ DOMAIN f = DOMAIN N \cup DOMAIN mus
        /\ \A k \in DOMAIN N : f[k] = N[k]
        /\ \A k \in DOMAIN mus : k \notin DOMAIN N => f[k] = mus[k]
    BY MergeDef
  <2>6. RequestFields(c, q) = f
    BY <2>1 DEF f, mus, us
  <2> HIDE DEF f
  <2>7. "user_agent.original" \in DOMAIN us
        /\ us["user_agent.original"] = Get(q.header, "User-Agent")
    BY <2>2, <2>3
  <2>8. "user_agent.original" \in DOMAIN mus
        /\ mus["user_agent.original"] = Get(q.header, "User-Agent")
    BY <2>2, <2>4, <2>7
  <2> QED
    BY <2>2, <2>5, <2>6, <2>8
<1>3. "name" \in DOMAIN (HttpName ++ NoRequest) /\ (HttpName ++ NoRequest)["name"] = <<"HTTP">>
  BY <1>1 DEF HttpName
<1> DEFINE q  == IF ev.request # Missing THEN RequestFields(c, ev.request) ELSE HttpName ++ NoRequest
           rs == IF ev.response # Missing THEN ResponseFields(ev.response) ELSE NoResponse
<1>4. addHttpFields(c, ev) = q ++ rs
  BY HttpParts
<1>5. /\ "name" \in DOMAIN q
      /\ q["name"] = IF ev.request # Missing THEN <<"HTTP", ev.request.method>> ELSE <<"HTTP">>
      /\ ev.request # Missing => /\ "user_agent.original" \in DOMAIN q
                                /\ q["user_agent.original"] = Get(ev.request.header, "User-Agent")
  BY <1>2, <1>3
<1> HIDE DEF q, rs
<1>6. DOMAIN (q ++ rs) = DOMAIN q \cup DOMAIN rs /\ \A k \in DOMAIN q : (q ++ rs)[k] = q[k]
  BY MergeDef
<1> QED
  BY <1>4, <1>5, <1>6

(* Both handlers read the clocks alike: the same fields, the same start,   *)
(* and the length of the span is the duration, where there is one.         *)
LEMMA TimesAgree ==
    ASSUME NEW ev, ev.requestTimestamp \in Int, ev.responseTimestamp \in Int, NEW now \in Int
    PROVE  LET h == setTimestampsAndDurationIfValid(ev, now)
               o == getEventStartEndTimestamps(ev, now)
           IN  /\ o.attrs = h.fields /\ o.start = h.timestamp
               /\ Agree(h.fields, h.fields)
               /\ DOMAIN h.fields \cap (OneSided \cup {"url.path"}) = {}
               /\ o.end - o.start = IF "duration_ms" \in DOMAIN h.fields
                                   THEN h.fields["duration_ms"] ELSE 0
<1> DEFINE req == ev.requestTimestamp
           res == ev.responseTimestamp
           h == setTimestampsAndDurationIfValid(ev, now)
           o == getEventStartEndTimestamps(ev, now)
           Q == CaptureFields("request", req, now)
           R == CaptureFields("response", res, now)
           D == Field("duration_ms", res - req)
           N(v) == Field("meta.timestamps_missing", v)
           both == N("request, response")
           noReq == N("request")
           noRes == N("response")
           Special == DualSent \cup OneSided \cup {"url.path"}
<1>1. /\ DOMAIN Q = {"http.request.timestamp", "meta.request.capture_to_handle.latency_ms"}
      /\ DOMAIN R = {"http.response.timestamp", "meta.response.capture_to_handle.latency_ms"}
  <2> DEFINE Q1 == Field("http.request.timestamp", req)
             Q2 == Field("meta.request.capture_to_handle.latency_ms", now - req)
             R1 == Field("http.response.timestamp", res)
             R2 == Field("meta.response.capture_to_handle.latency_ms", now - res)
  <2>1. /\ DOMAIN Q1 = {"http.request.timestamp"} /\ DOMAIN R1 = {"http.response.timestamp"}
        /\ DOMAIN Q2 = {"meta.request.capture_to_handle.latency_ms"}
        /\ DOMAIN R2 = {"meta.response.capture_to_handle.latency_ms"}
    BY FieldDef
  <2>2. Q = Q1 ++ Q2 /\ R = R1 ++ R2
    BY Zenon DEF CaptureFields
  <2> HIDE DEF Q1, Q2, R1, R2, Q, R
  <2>3. DOMAIN Q = DOMAIN Q1 \cup DOMAIN Q2 /\ DOMAIN R = DOMAIN R1 \cup DOMAIN R2
    BY <2>2, MergeDef
  <2> QED
    BY <2>1, <2>3
<1>2. DOMAIN D = {"duration_ms"} /\ D["duration_ms"] = res - req
  BY FieldDef
<1>3. \A v : DOMAIN N(v) = {"meta.timestamps_missing"}
  BY FieldDef
<1>3a. \A f \in {both, noReq, noRes} : DOMAIN f = {"meta.timestamps_missing"}
  BY <1>3, Zenon
<1> HIDE DEF Q, R, D, N, both, noReq, noRes
<1>4. /\ DOMAIN (noReq ++ R) = DOMAIN noReq \cup DOMAIN R
      /\ DOMAIN (noRes ++ Q) = DOMAIN noRes \cup DOMAIN Q
      /\ DOMAIN (Q ++ R) = DOMAIN Q \cup DOMAIN R
  BY MergeDef
<1>5. /\ DOMAIN (Q ++ R ++ D) = DOMAIN (Q ++ R) \cup DOMAIN D
      /\ \A k \in DOMAIN D : k \notin DOMAIN (Q ++ R) => (Q ++ R ++ D)[k] = D[k]
  BY MergeDef
<1>6. CASE IsZero(req) /\ IsZero(res)
  <2>0. /\ h = [timestamp |-> now, fields |-> both]
        /\ o = [start |-> now, end |-> now, attrs |-> both]
    BY <1>6 DEF setTimestampsAndDurationIfValid, getEventStartEndTimestamps, N, both
  <2> HIDE DEF h, o
  <2>1. /\ h.fields = both /\ h.timestamp = now
        /\ o.attrs = h.fields /\ o.start = now /\ o.end = now
    BY <2>0
  <2>2. "duration_ms" \notin DOMAIN h.fields /\ DOMAIN h.fields \cap Special = {}
    BY <1>3a, <2>1 DEF DualSent, OneSided
  <2> QED
    BY <2>1, <2>2, AgreeSelf DEF h, o
<1>7. CASE IsZero(req) /\ ~IsZero(res)
  <2>0. /\ h = [timestamp |-> res, fields |-> noReq ++ R]
        /\ o = [start |-> res, end |-> res, attrs |-> noReq ++ R]
    BY <1>7 DEF setTimestampsAndDurationIfValid, getEventStartEndTimestamps, N, noReq, R
  <2> HIDE DEF h, o
  <2>1. /\ h.fields = noReq ++ R /\ h.timestamp = res
        /\ o.attrs = h.fields /\ o.start = res /\ o.end = res
    BY <2>0
  <2>2. "duration_ms" \notin DOMAIN h.fields /\ DOMAIN h.fields \cap Special = {}
    BY <1>1, <1>3a, <1>4, <2>1 DEF DualSent, OneSided
  <2> QED
    BY <2>1, <2>2, AgreeSelf DEF h, o
<1>8. CASE ~IsZero(req) /\ IsZero(res)
  <2>0. /\ h = [timestamp |-> req, fields |-> noRes ++ Q]
        /\ o = [start |-> req, end |-> req, attrs |-> noRes ++ Q]
    BY <1>8 DEF setTimestampsAndDurationIfValid, getEventStartEndTimestamps, N, noRes, Q
  <2> HIDE DEF h, o
  <2>1. /\ h.fields = noRes ++ Q /\ h.timestamp = req
        /\ o.attrs = h.fields /\ o.start = req /\ o.end = req
    BY <2>0
  <2>2. "duration_ms" \notin DOMAIN h.fields /\ DOMAIN h.fields \cap Special = {}
    BY <1>1, <1>3a, <1>4, <2>1 DEF DualSent, OneSided
  <2> QED
    BY <2>1, <2>2, AgreeSelf DEF h, o
<1>9. CASE ~IsZero(req) /\ ~IsZero(res)
  <2>0. /\ h = [timestamp |-> req, fields |-> Q ++ R ++ D]
        /\ o = [start |-> req, end |-> res, attrs |-> Q ++ R ++ D]
    BY <1>9 DEF setTimestampsAndDurationIfValid, getEventStartEndTimestamps, Q, R, D
  <2> HIDE DEF h, o
  <2>1. /\ h.fields = Q ++ R ++ D /\ h.timestamp = req
        /\ o.attrs = h.fields /\ o.start = req /\ o.end = res
    BY <2>0
  <2>2. DOMAIN h.fields \cap Special = {}
    BY <1>1, <1>2, <1>4, <1>5, <2>1 DEF DualSent, OneSided
  <2>3. "duration_ms" \in DOMAIN h.fields /\ h.fields["duration_ms"] = res - req
    BY <1>1, <1>2, <1>4, <1>5, <2>1
  <2> QED
    BY <2>1, <2>2, <2>3, AgreeSelf DEF h, o
<1> QED
  BY <1>6, <1>7, <1>8, <1>9

-----------------------------------------------------------------------------
(* What is sent.  First, what parse leaves of the messages.                *)

LEMMA WireFacts ==
    ASSUME NEW w \in Wire
    PROVE  /\ DOMAIN w = {"request", "response", "requestTimestamp", "responseTimestamp"}
           /\ w.requestTimestamp \in Int /\ w.responseTimestamp \in Int /\ Now \in Int
           /\ \A m \in {w.request, w.response} : m # Missing =>
                 /\ "header" \in DOMAIN m /\ "" \notin DOMAIN m.header
                 /\ \A e \in Envs, kind \in {"request", "response"} :
                       Parsed(kind, NewConfig(e), m) # Missing
BY StartupConstants, Zenon

LEMMA ParsedMessage ==
    ASSUME NEW kind, NEW c, NEW m, m # Missing, "header" \in DOMAIN m
    PROVE  Parsed(kind, c, m).header
           = extractHeaders(c.HTTPHeadersToExtract, HandedOver(kind, m))
<1> DEFINE hs == extractHeaders(c.HTTPHeadersToExtract, HandedOver(kind, m))
<1>1. Parsed(kind, c, m) = [m EXCEPT !.header = hs]
  BY DEF Parsed
<1> HIDE DEF hs
<1> QED
  BY <1>1 DEF hs

LEMMA EventParts ==
    ASSUME NEW c, NEW w \in Wire
    PROVE  /\ NewHttpEvent(c, w).request = Parsed("request", c, w.request)
           /\ NewHttpEvent(c, w).response = Parsed("response", c, w.response)
           /\ NewHttpEvent(c, w).requestTimestamp = w.requestTimestamp
           /\ NewHttpEvent(c, w).responseTimestamp = w.responseTimestamp
BY WireFacts DEF NewHttpEvent

LEMMA EventTimes ==
    ASSUME NEW c, NEW w \in Wire
    PROVE  /\ NewHttpEvent(c, w).requestTimestamp \in Int
           /\ NewHttpEvent(c, w).responseTimestamp \in Int
<1>1. w.requestTimestamp \in Int /\ w.responseTimestamp \in Int
  BY WireFacts, Zenon
<1> QED
  BY <1>1, EventParts

(* net/http leaves alone what the propagator and the user agent's copy     *)
(* look at, and gives no header an empty name.                             *)
LEMMA HandedOverFacts ==
    ASSUME NEW kind \in {"request", "response"}, NEW m
    PROVE  /\ "" \notin DOMAIN m.header => "" \notin DOMAIN HandedOver(kind, m)
           /\ Get(HandedOver(kind, m), "Traceparent") = Get(m.header, "Traceparent")
<1> DEFINE P == FieldIf(Get(m.header, "Pragma") = "no-cache", "Cache-Control", "no-cache")
           read == m.header ++ P
<1>1. DOMAIN P \subseteq {"Cache-Control"}
  BY DEF FieldIf, Field, NoFields
<1> HIDE DEF P
<1>2. /\ DOMAIN read = DOMAIN m.header \cup DOMAIN P
      /\ \A h \in DOMAIN m.header : read[h] = m.header[h]
  BY MergeDef
<1>3. PICK taken \in SUBSET {"Transfer-Encoding", "Host", "Content-Length", "Trailer"} :
          HandedOver(kind, m) = [h \in DOMAIN read \ taken |-> read[h]]
  BY DEF HandedOver, read, P
<1> HIDE DEF read
<1>4. /\ DOMAIN HandedOver(kind, m) = DOMAIN read \ taken
      /\ \A h \in DOMAIN read \ taken : HandedOver(kind, m)[h] = read[h]
  BY <1>3
<1> QED
  BY <1>1, <1>2, <1>4 DEF Get

(* The headers that are extracted are the ones that were asked for.        *)
LEMMA ExtractedIsAsked ==
    ASSUME NEW D, "" \notin D
    PROVE  {Canonical(n) : n \in NewConfig(env).HTTPHeadersToExtract} \cap D = {h \in D : Asked(h)}
<1> DEFINE names == getHTTPHeadersToExtract(env.HTTP_HEADERS)
           list == env.HTTP_HEADERS
<1>1. NewConfig(env).HTTPHeadersToExtract = names
  BY DEF NewConfig
<1>2. Canonical("") = "" /\ Canonical("User-Agent") = "User-Agent"
      /\ Canonical("Traceparent") = "Traceparent"
  BY StartupConstants, Zenon
<1>3. CASE list = Unset
  <2>1. names = {"User-Agent", "Traceparent"}
    BY <1>3 DEF getHTTPHeadersToExtract, LookupEnvAsStringSlice
  <2>2. {Canonical(n) : n \in names} = names
    BY <1>2, <2>1
  <2>3. \A h : Asked(h) <=> h \in names
    BY <1>3, <2>1 DEF Asked
  <2> HIDE DEF names
  <2> QED
    BY <1>1, <2>2, <2>3
<1>4. CASE list # Unset
  <2>1. names = {list[i] : i \in DOMAIN list} \ {""}
    BY <1>4 DEF getHTTPHeadersToExtract, LookupEnvAsStringSlice
  <2>2. \A h : Asked(h) <=> \E i \in DOMAIN list : Canonical(list[i]) = h
    BY <1>4 DEF Asked
  <2>3. ASSUME NEW h \in D
        PROVE  Asked(h) <=> \E n \in names : Canonical(n) = h
    <3>1. h # ""
      BY <2>3
    <3> HIDE DEF names, list
    <3> QED
      BY <1>2, <2>1, <2>2, <3>1, Zenon
  <2> HIDE DEF names, list
  <2> QED
    BY <1>1, <2>3
<1> QED
  BY <1>3, <1>4

\* What leaves of a header, with its values.
Left(header) == [h \in Leaving(header) |-> header[h]]

LEMMA KeptIsAsked ==
    ASSUME NEW header, "" \notin DOMAIN header
    PROVE  extractHeaders(NewConfig(env).HTTPHeadersToExtract, header) = Left(header)
<1> DEFINE D == {g \in DOMAIN header : header[g] # ""}
           K == {Canonical(n) : n \in NewConfig(env).HTTPHeadersToExtract} \cap D
<1>1. extractHeaders(NewConfig(env).HTTPHeadersToExtract, header) = [h \in K |-> header[h]]
  BY Zenon DEF extractHeaders
<1>2. K = {h \in D : Asked(h)}
  <2>1. "" \notin D
    OBVIOUS
  <2> HIDE DEF D
  <2> QED
    BY <2>1, ExtractedIsAsked
<1>3. {h \in D : Asked(h)} = Leaving(header)
  BY DEF Leaving
<1> HIDE DEF K, D
<1> QED
  BY <1>1, <1>2, <1>3 DEF Left

(* What is left of a message's header.                                     *)
LEMMA HeadersLeft ==
    ASSUME NEW w \in Wire, NEW kind \in {"request", "response"}, NEW m \in {w.request, w.response},
           m # Missing, env \in Envs
    PROVE  /\ Parsed(kind, NewConfig(env), m) # Missing
           /\ Parsed(kind, NewConfig(env), m).header = Left(HandedOver(kind, m))
<1>1. /\ "header" \in DOMAIN m /\ "" \notin DOMAIN m.header
      /\ Parsed(kind, NewConfig(env), m) # Missing
  BY WireFacts, Zenon
<1>2. "" \notin DOMAIN HandedOver(kind, m)
  BY <1>1, HandedOverFacts
<1> QED
  BY <1>1, <1>2, ParsedMessage, KeptIsAsked

\* What Header.Get finds of it.
LEMMA GetLeft ==
    ASSUME NEW header, NEW h
    PROVE  Get(Left(header), h) = IF h \in Leaving(header) THEN header[h] ELSE ""
BY DEF Get, Left

LEMMA SpanContinues ==
    ASSUME NEW c, NEW ev
    PROVE  createHTTPSpan(c, ev, Now).continues
           = (ev.request # Missing /\ Get(ev.request.header, "Traceparent") # "")
BY DEF createHTTPSpan, getContextFromHTTPEvent

(* The span continues the request's trace exactly if Traceparent is among  *)
(* the headers to extract, for every configuration and every request.      *)
THEOREM TraceContinued == Spec => []TraceIsContinued
<1>1. ASSUME IInv PROVE TraceIsContinued
  <2> SUFFICES ASSUME handler = "otel", sent # Nothing, wire.request # Missing
               PROVE  sent.continues <=>
                          Get(wire.request.header, "Traceparent") # "" /\ Asked("Traceparent")
    BY DEF TraceIsContinued
  <2> DEFINE header == HandedOver("request", wire.request)
  <2>1. /\ wire \in Wire /\ env \in Envs /\ config = NewConfig(env)
        /\ sent = createHTTPSpan(config, NewHttpEvent(config, wire), Now)
    BY <1>1 DEF IInv, SentFromWire, AsSpan
  <2>2. NewHttpEvent(config, wire).request = Parsed("request", config, wire.request)
    BY <2>1, EventParts
  <2>3. /\ Parsed("request", config, wire.request) # Missing
        /\ Parsed("request", config, wire.request).header = Left(header)
    BY <2>1, HeadersLeft
  <2>4. Get(header, "Traceparent") = Get(wire.request.header, "Traceparent")
    BY HandedOverFacts
  <2>5. Get(Left(header), "Traceparent") # "" <=> "Traceparent" \in Leaving(header)
    BY GetLeft DEF Leaving
  <2>6. "Traceparent" \in Leaving(header)
            <=> Get(header, "Traceparent") # "" /\ Asked("Traceparent")
    BY DEF Leaving, Get
  <2> HIDE DEF header
  <2> QED
    BY <2>1, <2>2, <2>3, <2>4, <2>5, <2>6, SpanContinues
<1> QED
  BY <1>1, Invariance, PTL

-----------------------------------------------------------------------------
(* The two handlers.                                                       *)

(* What the agent says of itself, in both handlers.                        *)
LEMMA ResourceIsGlobal ==
    ASSUME AddedApart, NEW e \in Envs
    PROVE  LET c   == NewConfig(e)
               G   == initLibhoney(c)
               R   == NewOtelHandler(c)
               own == DOMAIN G \ DOMAIN c.AdditionalAttributes
           IN  /\ own = {f \in DOMAIN R \ {"net.component"} : R[f] # ""}
               /\ \A f \in own : G[f] = R[f]
<1> DEFINE c == NewConfig(e)
           A == c.AdditionalAttributes
           I == AgentIdentity
           S == {f \in DOMAIN c.Agent : c.Agent[f] # ""}
           K == [f \in S |-> c.Agent[f]]
           N == Field("net.component", "proxy")
           G == initLibhoney(c)
           R == NewOtelHandler(c)
           own == DOMAIN G \ DOMAIN A
<1>1. /\ DOMAIN I = {"honeycomb.agent.name", "honeycomb.agent.version"}
      /\ \A f \in DOMAIN I : I[f] # ""
  <2> DEFINE name    == Field("honeycomb.agent.name", "Honeycomb Network Agent")
             version == Field("honeycomb.agent.version", BuildVersion)
  <2>1. /\ DOMAIN name = {"honeycomb.agent.name"} /\ DOMAIN version = {"honeycomb.agent.version"}
        /\ name["honeycomb.agent.name"] = "Honeycomb Network Agent"
        /\ version["honeycomb.agent.version"] = BuildVersion
    BY FieldDef
  <2>2. I = name ++ version
    BY Zenon DEF AgentIdentity
  <2>3. BuildVersion # ""
    BY StartupConstants, Zenon
  <2> HIDE DEF name, version
  <2> DEFINE nv == name ++ version
  <2>4. /\ DOMAIN nv = DOMAIN name \cup DOMAIN version
        /\ \A k \in DOMAIN name : nv[k] = name[k]
        /\ \A k \in DOMAIN version : k \notin DOMAIN name => nv[k] = version[k]
    BY MergeDef
  <2> HIDE DEF nv, I
  <2>5. DOMAIN nv = {"honeycomb.agent.name", "honeycomb.agent.version"}
    BY <2>1, <2>4
  <2>6. nv["honeycomb.agent.name"] # "" /\ nv["honeycomb.agent.version"] # ""
    BY <2>1, <2>3, <2>4
  <2> QED
    BY <2>2, <2>5, <2>6 DEF nv
<1>2. DOMAIN c.Agent = AgentFields /\ DOMAIN A \cap (AgentFields \cup DOMAIN I) = {}
  BY DEF AddedApart, NewConfig
<1>3. DOMAIN N = {"net.component"}
  BY FieldDef
<1> DEFINE AI == A ++ I
           IC == I ++ c.Agent
<1>4. G = AI ++ K /\ R = IC ++ N
  BY Zenon DEF initLibhoney, NewOtelHandler
<1>5. DOMAIN K = S /\ \A f \in S : K[f] = c.Agent[f]
  OBVIOUS
<1> HIDE DEF c, A, I, K, N, G, R, S
<1>6. /\ DOMAIN AI = DOMAIN A \cup DOMAIN I
      /\ \A f \in DOMAIN I : f \notin DOMAIN A => AI[f] = I[f]
      /\ DOMAIN IC = DOMAIN I \cup DOMAIN c.Agent
      /\ \A f \in DOMAIN I : IC[f] = I[f]
      /\ \A f \in DOMAIN c.Agent : f \notin DOMAIN I => IC[f] = c.Agent[f]
  BY MergeDef
<1> HIDE DEF AI, IC
<1>7. /\ DOMAIN G = DOMAIN A \cup DOMAIN I \cup DOMAIN K
      /\ \A f \in DOMAIN I : f \notin DOMAIN A => G[f] = I[f]
      /\ \A f \in DOMAIN K : f \notin DOMAIN A \cup DOMAIN I => G[f] = K[f]
  <2> DEFINE AIK == AI ++ K
  <2>1. /\ DOMAIN AIK = DOMAIN AI \cup DOMAIN K
        /\ \A f \in DOMAIN AI : AIK[f] = AI[f]
        /\ \A f \in DOMAIN K : f \notin DOMAIN AI => AIK[f] = K[f]
    BY MergeDef
  <2>2. G = AIK
    BY <1>4
  <2> HIDE DEF AIK
  <2> QED
    BY <1>6, <2>1, <2>2
<1>8. /\ DOMAIN R = DOMAIN I \cup AgentFields \cup {"net.component"}
      /\ \A f \in DOMAIN I : R[f] = I[f]
      /\ \A f \in AgentFields : f \notin DOMAIN I => R[f] = c.Agent[f]
  <2> DEFINE ICN == IC ++ N
  <2>1. /\ DOMAIN ICN = DOMAIN IC \cup DOMAIN N
        /\ \A f \in DOMAIN IC : ICN[f] = IC[f]
    BY MergeDef
  <2>2. R = ICN
    BY <1>4
  <2> HIDE DEF ICN
  <2> QED
    BY <1>2, <1>3, <1>6, <2>1, <2>2
<1>9. AgentFields \cap (DOMAIN I \cup {"net.component"}) = {} /\ "net.component" \notin DOMAIN I
  BY <1>1 DEF AgentFields
<1>10. S \subseteq AgentFields /\ \A f \in AgentFields : f \in S <=> c.Agent[f] # ""
  BY <1>2 DEF S
<1>11. own = DOMAIN I \cup S
  BY <1>2, <1>5, <1>7, <1>10
<1> HIDE DEF own
<1>12. ASSUME NEW f \in DOMAIN I PROVE G[f] = I[f] /\ R[f] = I[f] /\ I[f] # ""
  BY <1>1, <1>2, <1>7, <1>8
<1>13. ASSUME NEW f \in S PROVE G[f] = c.Agent[f] /\ R[f] = c.Agent[f] /\ c.Agent[f] # ""
  BY <1>2, <1>5, <1>7, <1>8, <1>9, <1>10
<1>14. ASSUME NEW f \in DOMAIN R \ {"net.component"}, R[f] # "" PROVE f \in own
  <2>1. CASE f \in DOMAIN I
    BY <1>11, <2>1
  <2>2. CASE f \in AgentFields /\ f \notin DOMAIN I
    BY <1>8, <1>10, <1>11, <1>14, <2>2
  <2> QED
    BY <1>8, <2>1, <2>2
<1>15. \A f \in own : G[f] = R[f] /\ R[f] # "" /\ f \in DOMAIN R \ {"net.component"}
  BY <1>8, <1>9, <1>10, <1>11, <1>12, <1>13
<1>16. own = {f \in DOMAIN R \ {"net.component"} : R[f] # ""} /\ \A f \in own : G[f] = R[f]
  BY <1>14, <1>15
<1> QED
  BY <1>16, Zenon DEF own, c, A, G, R

(* The two handlers say the same of every event, whatever is in it and     *)
(* however the agent is configured.                                        *)
THEOREM HandlersSayTheSame ==
    ASSUME AddedApart PROVE Spec => []HandlersAgree
<1>1. ASSUME IInv PROVE HandlersAgree
  <2> SUFFICES ASSUME wire # Nothing PROVE HandlersAgree
    BY DEF HandlersAgree
  <2> DEFINE ev == NewHttpEvent(config, wire)
             times == setTimestampsAndDurationIfValid(ev, Now)
             span == getEventStartEndTimestamps(ev, Now)
  <2>1. wire \in Wire /\ env \in Envs /\ config = NewConfig(env)
    BY <1>1 DEF IInv, SentFromWire
  <2>2. ev.requestTimestamp \in Int /\ ev.responseTimestamp \in Int /\ Now \in Int
    BY <2>1, EventTimes, NowType
  <2> HIDE DEF ev
  <2>3. /\ span.attrs = times.fields /\ span.start = times.timestamp
        /\ Agree(times.fields, times.fields)
        /\ DOMAIN times.fields \cap (OneSided \cup {"url.path"}) = {}
        /\ span.end - span.start = IF "duration_ms" \in DOMAIN times.fields
                                  THEN times.fields["duration_ms"] ELSE 0
    BY <2>2, TimesAgree
  <2>4. /\ AsLibhoney.fields = times.fields ++ addHttpFields(config, ev)
        /\ AsLibhoney.timestamp = times.timestamp
        /\ AsLibhoney.global = initLibhoney(config)
        /\ AsLibhoney.requestHeaders = HeadersOf(ev.request)
        /\ AsLibhoney.responseHeaders = HeadersOf(ev.response)
    BY DEF AsLibhoney, LibhoneyEvent, ev
  <2>5. /\ AsSpan.attrs = span.attrs ++ resolveHTTPAttributes(config, ev)
        /\ AsSpan.start = span.start /\ AsSpan.end = span.end
        /\ AsSpan.resource = NewOtelHandler(config)
        /\ AsSpan.name = IF ev.request = Missing THEN <<"HTTP">> ELSE <<ev.request.method>>
        /\ AsSpan.requestHeaders = HeadersOf(ev.request)
        /\ AsSpan.responseHeaders = HeadersOf(ev.response)
    BY DEF AsSpan, createHTTPSpan, ev
  <2> HIDE DEF times, span
  <2>6. Agree(AsLibhoney.fields, AsSpan.attrs)
    BY <2>3, <2>4, <2>5, HttpFieldsAgree, AgreeMerge
  <2>7. /\ DOMAIN AsLibhoney.fields \ {"name", "user_agent.original"} = CommonKeys
        /\ \A k \in CommonKeys : AsSpan.attrs[k] = AsLibhoney.fields[k]
    <3>1. /\ DOMAIN AsLibhoney.fields \ OneSided = CommonKeys
          /\ \A k \in CommonKeys : AsSpan.attrs[k] = AsLibhoney.fields[k]
      BY <2>6, Zenon DEF Agree, CommonKeys
    <3> QED
      BY <3>1 DEF OneSided
  <2>8. /\ "duration_ms" \in CommonKeys <=> "duration_ms" \in DOMAIN times.fields
        /\ "duration_ms" \in DOMAIN times.fields
              => AsLibhoney.fields["duration_ms"] = times.fields["duration_ms"]
    <3> DEFINE T == times.fields
    <3> HIDE DEF T
    <3>1. /\ AsSpan.attrs = T ++ resolveHTTPAttributes(config, ev)
          /\ AsLibhoney.fields = T ++ addHttpFields(config, ev)
      BY <2>3, <2>4, <2>5 DEF T
    <3>1a. DOMAIN AsSpan.attrs = DOMAIN T \cup DOMAIN resolveHTTPAttributes(config, ev)
      BY <3>1, MergeDef
    <3>1b. \A k \in DOMAIN T : AsLibhoney.fields[k] = T[k]
      <4>1. \A k \in DOMAIN T : (T ++ addHttpFields(config, ev))[k] = T[k]
        BY MergeDef
      <4> QED
        BY <3>1, <4>1
    <3>2. "duration_ms" \notin DOMAIN resolveHTTPAttributes(config, ev)
      BY KeysOfHttpFields DEF Without, OtherKeys, DualSent
    <3> QED
      BY <3>1a, <3>1b, <3>2 DEF CommonKeys, DualSent, T
  <2>9. LET own == DOMAIN AsLibhoney.global \ DOMAIN config.AdditionalAttributes
        IN  /\ own = {f \in DOMAIN AsSpan.resource \ {"net.component"} : AsSpan.resource[f] # ""}
            /\ \A f \in own : AsLibhoney.global[f] = AsSpan.resource[f]
    BY <2>1, <2>4, <2>5, ResourceIsGlobal
  <2>10. AsLibhoney.fields["name"] = IF wire.request = Missing THEN AsSpan.name
                                     ELSE <<"HTTP">> \o AsSpan.name
    <3> DEFINE H == addHttpFields(config, ev)
               T == times.fields
    <3>1. H["name"] = (IF ev.request # Missing THEN <<"HTTP", ev.request.method>> ELSE <<"HTTP">>)
          /\ "name" \in DOMAIN H
      BY OneSidedFields
    <3>2. "name" \notin DOMAIN T
      BY <2>3 DEF OneSided
    <3>2a. AsLibhoney.fields = T ++ H
      BY <2>4
    <3> HIDE DEF H, T
    <3>3. AsLibhoney.fields["name"] = H["name"]
      <4>1. \A k \in DOMAIN H : k \notin DOMAIN T => (T ++ H)[k] = H[k]
        BY MergeDef
      <4> QED
        BY <3>1, <3>2, <3>2a, <4>1
    <3>4. ev.request = Missing <=> wire.request = Missing
      <4>1. ev.request = Parsed("request", config, wire.request)
        BY <2>1, EventParts DEF ev
      <4>2. CASE wire.request = Missing
        BY <4>1, <4>2 DEF Parsed
      <4>3. CASE wire.request # Missing
        BY <2>1, <4>1, <4>3, HeadersLeft
      <4> QED
        BY <4>2, <4>3
    <3>5. ASSUME NEW m PROVE <<"HTTP">> \o <<m>> = <<"HTTP", m>>
      <4> DEFINE a == <<"HTTP">>
                 b == <<m>>
                 d == <<"HTTP", m>>
      <4>1. /\ a \in Seq({"HTTP", m}) /\ b \in Seq({"HTTP", m}) /\ d \in Seq({"HTTP", m})
            /\ Len(a) = 1 /\ Len(b) = 1 /\ Len(d) = 2
            /\ a[1] = "HTTP" /\ b[1] = m /\ d[1] = "HTTP" /\ d[2] = m
        OBVIOUS
      <4> HIDE DEF a, b, d
      <4>2. a \o b \in Seq({"HTTP", m}) /\ Len(a \o b) = 2 /\ (a \o b)[1] = a[1] /\ (a \o b)[2] = b[1]
        BY <4>1, ConcatProperties
      <4>3. \A i \in 1 .. 2 : (a \o b)[i] = d[i]
        BY <4>1, <4>2
      <4>4. a \o b = d
        BY <4>1, <4>2, <4>3, SeqEqual
      <4> QED
        BY <4>4 DEF a, b, d
    <3> DEFINE name == IF ev.request # Missing THEN <<"HTTP", ev.request.method>> ELSE <<"HTTP">>
    <3>6. AsLibhoney.fields["name"] = name
      BY <3>1, <3>3
    <3>7. CASE ev.request = Missing
      BY <2>5, <3>4, <3>6, <3>7
    <3>8. CASE ev.request # Missing
      <4>1. /\ AsSpan.name = <<ev.request.method>>
            /\ AsLibhoney.fields["name"] = <<"HTTP", ev.request.method>>
        BY <2>5, <3>6, <3>8
      <4> QED
        BY <3>4, <3>5, <3>8, <4>1
    <3> QED
      BY <3>7, <3>8
  <2> QED
    BY <2>3, <2>4, <2>5, <2>7, <2>8, <2>9, <2>10 DEF HandlersAgree
<1> QED
  BY <1>1, Invariance, PTL

-----------------------------------------------------------------------------
(* What leaves the agent.                                                  *)

LEMMA AllReported ==
    ASSUME NEW header, \A g, h \in DOMAIN header : Sanitized(g) = Sanitized(h) => g = h
    PROVE  /\ DOMAIN sanitizeHeaders(header) = {Sanitized(h) : h \in DOMAIN header}
           /\ \A h \in DOMAIN header : sanitizeHeaders(header)[Sanitized(h)] = header[h]
<1> DEFINE keys == {Sanitized(h) : h \in DOMAIN header}
           of(k) == CHOOSE h \in DOMAIN header : Sanitized(h) = k
           f == sanitizeHeaders(header)
<1>1. DOMAIN f = keys /\ \A k \in keys : f[k] = header[of(k)]
  BY DEF sanitizeHeaders
<1>2. ASSUME NEW h \in DOMAIN header PROVE of(Sanitized(h)) = h
  <2>1. of(Sanitized(h)) \in DOMAIN header /\ Sanitized(of(Sanitized(h))) = Sanitized(h)
    BY <1>2
  <2> QED
    BY <2>1
<1> HIDE DEF f, of
<1>3. \A h \in DOMAIN header : f[Sanitized(h)] = header[h]
  BY <1>1, <1>2
<1> QED
  BY <1>1, <1>3 DEF f

LEMMA HeadersReported ==
    ASSUME NamesApart, env \in Envs, NEW w \in Wire, NEW kind \in {"request", "response"},
           w[kind] # Missing
    PROVE  Reports(HeadersOf(Parsed(kind, NewConfig(env), w[kind])), HandedOver(kind, w[kind]))
<1> DEFINE header == HandedOver(kind, w[kind])
           left == Left(header)
           p == Parsed(kind, NewConfig(env), w[kind])
<1>1. p # Missing /\ p.header = left
  <2>1. w[kind] \in {w.request, w.response}
    OBVIOUS
  <2> QED
    BY <2>1, HeadersLeft
<1>2. \A g, h \in DOMAIN header : Sanitized(g) = Sanitized(h) => g = h
  BY DEF NamesApart
<1> HIDE DEF header, p
<1>3. /\ DOMAIN left = Leaving(header) /\ Leaving(header) \subseteq DOMAIN header
      /\ \A h \in Leaving(header) : left[h] = header[h]
  BY DEF Left, Leaving
<1>4. HeadersOf(p) = sanitizeHeaders(left)
  BY <1>1 DEF HeadersOf
<1> HIDE DEF left
<1>5. /\ DOMAIN sanitizeHeaders(left) = {Sanitized(h) : h \in DOMAIN left}
      /\ \A h \in DOMAIN left : sanitizeHeaders(left)[Sanitized(h)] = left[h]
  BY <1>2, <1>3, AllReported
<1>6. Reports(sanitizeHeaders(left), header)
  BY <1>3, <1>5 DEF Reports
<1> QED
  BY <1>4, <1>6 DEF header, p

(* The user agent's second copy has the same value, if it has one.         *)
LEMMA UserAgentCopy ==
    ASSUME NEW w \in Wire, w.request # Missing, env \in Envs
    PROVE  LET c      == NewConfig(env)
               header == HandedOver("request", w.request)
           IN  LibhoneyEvent(c, NewHttpEvent(c, w), Now).fields["user_agent.original"]
               = IF "User-Agent" \in Leaving(header) THEN header["User-Agent"] ELSE ""
<1> DEFINE c  == NewConfig(env)
           ev == NewHttpEvent(c, w)
           header == HandedOver("request", w.request)
           T  == setTimestampsAndDurationIfValid(ev, Now).fields
           H  == addHttpFields(c, ev)
<1>1. ev.requestTimestamp \in Int /\ ev.responseTimestamp \in Int
  BY EventTimes
<1>2. ev.request # Missing /\ ev.request.header = Left(header)
  BY EventParts, HeadersLeft
<1> HIDE DEF ev
<1>3. "user_agent.original" \notin DOMAIN T
  <2>1. DOMAIN T \cap (OneSided \cup {"url.path"}) = {}
    BY <1>1, TimesAgree, NowType
  <2> HIDE DEF T
  <2> QED
    BY <2>1 DEF OneSided
<1>4. "user_agent.original" \in DOMAIN H
      /\ H["user_agent.original"] = Get(ev.request.header, "User-Agent")
  BY <1>2, OneSidedFields
<1>5. LibhoneyEvent(c, ev, Now).fields = T ++ H
  BY DEF LibhoneyEvent
<1> HIDE DEF T, H, c, header
<1>6. (T ++ H)["user_agent.original"] = H["user_agent.original"]
  <2>1. \A k \in DOMAIN H : k \notin DOMAIN T => (T ++ H)[k] = H[k]
    BY MergeDef
  <2> QED
    BY <1>3, <1>4, <2>1
<1>7. Get(Left(header), "User-Agent")
      = IF "User-Agent" \in Leaving(header) THEN header["User-Agent"] ELSE ""
  BY GetLeft
<1> QED
  BY <1>2, <1>4, <1>5, <1>6, <1>7 DEF c, header, ev

(* The path is in neither handler's fields once the URL is left out.       *)
LEMMA PathLeftOut ==
    ASSUME NEW c, ~c.IncludeRequestURL, NEW ev,
           ev.requestTimestamp \in Int, ev.responseTimestamp \in Int
    PROVE  /\ "url.path" \notin DOMAIN createHTTPSpan(c, ev, Now).attrs
           /\ "url.path" \notin DOMAIN LibhoneyEvent(c, ev, Now).fields
<1> DEFINE times == setTimestampsAndDurationIfValid(ev, Now)
           span == getEventStartEndTimestamps(ev, Now)
<1>1. Without(resolveHTTPAttributes(c, ev), "url.path")
  BY KeysOfHttpFields DEF OtherKeys, DualSent
<1>2. Without(addHttpFields(c, ev), "url.path")
  <2>1. Agree(addHttpFields(c, ev), resolveHTTPAttributes(c, ev))
    BY HttpFieldsAgree
  <2> QED
    BY <1>1, <2>1 DEF Agree, Without, DualSent, OneSided
<1>3. span.attrs = times.fields /\ Without(times.fields, "url.path")
  <2>1. span.attrs = times.fields /\ DOMAIN times.fields \cap (OneSided \cup {"url.path"}) = {}
    BY TimesAgree, NowType
  <2> HIDE DEF times, span
  <2> QED
    BY <2>1 DEF Without
<1>4. /\ createHTTPSpan(c, ev, Now).attrs = span.attrs ++ resolveHTTPAttributes(c, ev)
      /\ LibhoneyEvent(c, ev, Now).fields = times.fields ++ addHttpFields(c, ev)
  BY DEF createHTTPSpan, LibhoneyEvent
<1> HIDE DEF times, span
<1>5. /\ Without(createHTTPSpan(c, ev, Now).attrs, "url.path")
      /\ Without(LibhoneyEvent(c, ev, Now).fields, "url.path")
  BY <1>1, <1>2, <1>3, <1>4, WithoutMerge
<1> QED
  BY <1>5 DEF Without

LEMMA UrlSwitchedOff ==
    ASSUME NEW e, e.INCLUDE_REQUEST_URL = "false" PROVE ~NewConfig(e).IncludeRequestURL
<1>1. LookupEnvOrBool("false", TRUE) = FALSE
  BY DEF LookupEnvOrBool
<1> QED
  BY <1>1 DEF NewConfig

(* What was configured to stay inside stays inside, and what was asked for *)
(* comes out, for every environment and every pair of messages: of the     *)
(* headers exactly the ones that were asked for, that net/http hands over  *)
(* and that are not empty, each with its value, and no path without        *)
(* INCLUDE_REQUEST_URL.                                                    *)
THEOREM ConfiguredIsSent ==
    ASSUME NamesApart PROVE Spec => []OnlyWhatIsConfigured
<1>1. ASSUME IInv PROVE OnlyWhatIsConfigured
  <2> SUFFICES ASSUME sent # Nothing PROVE OnlyWhatIsConfigured
    BY DEF OnlyWhatIsConfigured
  <2> DEFINE ev == NewHttpEvent(config, wire)
  <2>1. /\ wire \in Wire /\ env \in Envs /\ config = NewConfig(env)
        /\ sent = IF handler = "otel" THEN AsSpan ELSE AsLibhoney
    BY <1>1 DEF IInv, SentFromWire
  <2>2. /\ sent.requestHeaders = HeadersOf(Parsed("request", config, wire.request))
        /\ sent.responseHeaders = HeadersOf(Parsed("response", config, wire.response))
    <3>1. /\ ev.request = Parsed("request", config, wire.request)
          /\ ev.response = Parsed("response", config, wire.response)
      BY <2>1, EventParts
    <3>2. /\ AsSpan.requestHeaders = HeadersOf(ev.request)
          /\ AsSpan.responseHeaders = HeadersOf(ev.response)
      BY DEF AsSpan, createHTTPSpan
    <3>3. /\ AsLibhoney.requestHeaders = HeadersOf(ev.request)
          /\ AsLibhoney.responseHeaders = HeadersOf(ev.response)
      BY DEF AsLibhoney, LibhoneyEvent
    <3> QED
      BY <2>1, <3>1, <3>2, <3>3
  <2>3. wire.request # Missing =>
            Reports(sent.requestHeaders, HandedOver("request", wire.request))
    BY <2>1, <2>2, HeadersReported
  <2>4. wire.response # Missing =>
            Reports(sent.responseHeaders, HandedOver("response", wire.response))
    BY <2>1, <2>2, HeadersReported
  <2>4a. wire.request # Missing /\ handler # "otel" =>
            LET header == HandedOver("request", wire.request)
            IN  sent.fields["user_agent.original"] =
                  IF "User-Agent" \in Leaving(header) THEN header["User-Agent"] ELSE ""
    BY <2>1, UserAgentCopy DEF AsLibhoney
  <2>5. ASSUME env.INCLUDE_REQUEST_URL = "false"
        PROVE  "url.path" \notin DOMAIN (IF handler = "otel" THEN sent.attrs ELSE sent.fields)
    <3>1. ~config.IncludeRequestURL
      BY <2>1, <2>5, UrlSwitchedOff
    <3>2. ev.requestTimestamp \in Int /\ ev.responseTimestamp \in Int
      BY <2>1, EventTimes
    <3> HIDE DEF ev
    <3>3. /\ "url.path" \notin DOMAIN AsSpan.attrs
          /\ "url.path" \notin DOMAIN AsLibhoney.fields
      BY <3>1, <3>2, PathLeftOut DEF AsSpan, AsLibhoney, ev
    <3> QED
      BY <2>1, <3>3
  <2> QED
    BY <2>3, <2>4, <2>4a, <2>5 DEF OnlyWhatIsConfigured
<1> QED
  BY <1>1, Invariance, PTL
=============================================================================
