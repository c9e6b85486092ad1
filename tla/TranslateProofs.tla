--------------------------- MODULE TranslateProofs ---------------------------
(* Proofs about Translate for every set of specs, channels and groups and  *)
(* every edit in Kuma's UI.                                                *)
EXTENDS Translate, ListProofs

-----------------------------------------------------------------------------
(* Sets of ids and the sequences that list them.                           *)

(* equalInt64Sets: two lists of one set are equal, ...                     *)
LEMMA SameLists ==
  ASSUME NEW S, IsFiniteSet(S), NEW a \in SetToSeqs(S), NEW b \in SetToSeqs(S)
  PROVE  EqualInt64Sets(a, b)
<1>1. Len(a) = Len(b) /\ ToSet(a) = S /\ ToSet(b) = S
  BY ListOf
<1>2. ASSUME NEW c \in SetToSeqs(S), NEW v \in S
      PROVE  Count(c, v) = 1
  <2>1. PICK i \in DOMAIN c : c[i] = v
    BY <1>2, ListOf DEF ToSet
  <2>2. {j \in DOMAIN c : c[j] = v} = {i}
    BY <2>1, ListOf
  <2> QED
    BY <2>2, FS_Singleton DEF Count
<1> QED
  BY <1>1, <1>2 DEF EqualInt64Sets

(* ... and equal lists are of one set.                                     *)
LEMMA SameElements ==
  ASSUME NEW S, NEW a \in Seq(S), NEW b \in Seq(S), EqualInt64Sets(a, b)
  PROVE  ToSet(a) = ToSet(b)
<1>1. ASSUME NEW c \in Seq(S), NEW v
      PROVE  v \in ToSet(c) <=> Count(c, v) # 0
  <2>1. Len(c) \in Nat /\ DOMAIN c = 1..Len(c)
    OBVIOUS
  <2> DEFINE P == {i \in DOMAIN c : c[i] = v}
  <2>2. IsFiniteSet(P)
    <3>1. IsFiniteSet(DOMAIN c) /\ P \in SUBSET DOMAIN c
      BY <2>1, FS_Interval
    <3> HIDE DEF P
    <3> QED
      BY <3>1, FS_Subset
  <2>3. P = {} <=> Cardinality(P) = 0
    BY <2>2, FS_EmptySet
  <2> QED
    BY <2>3 DEF Count, ToSet
<1>2. \A v \in ToSet(a) \cup ToSet(b) : Count(a, v) = Count(b, v)
  BY DEF EqualInt64Sets
<1>3. \A v \in ToSet(a) \cup ToSet(b) : v \in ToSet(a) <=> v \in ToSet(b)
  BY <1>1, <1>2
<1> QED
  BY <1>3

-----------------------------------------------------------------------------
(* The part of a configuration that its type has for itself.               *)

StoredDetail(d) ==
    [f \in DOMAIN d |->
        CASE f = "method" -> OrDefault(d[f], "", "GET")
          [] f = "codes" -> OrDefault(d[f], <<>>, <<"200-299">>)
          [] f = "resolveType" -> OrDefault(d[f], "", "A")
          [] OTHER -> d[f]]

ManagedField(f, v) ==
    CASE f = "oauthMethod" -> ""
      [] f = "timeout" -> SecondsFromKuma(Value(v, 0))
      [] f \in {"tlsMode", "token"} -> Value(v, "")
      [] OTHER -> v

ManagedDetail(d) == [f \in DOMAIN d |-> ManagedField(f, d[f])]

Sent(type, d) == StoredDetail(ToDetail(type, NormalizeDetail(type, d)))

LEMMA TypeNames ==
  /\ Types = {"HTTP", "TCP", "Ping", "DNS", "Gamedig", "Push"}
  /\ \A t, u \in Types : KumaTypes[t] = KumaTypes[u] => t = u
BY DEF Types, KumaTypes

LEMMA NilApart ==
  /\ \A v \in Text \cup Int : v # Nil
  /\ \A t \in Types : \A d \in Parts[t] : d # Nil
BY NilAssumption

LEMMA WholeSeconds == \A n \in Int : SecondsFromKuma(10 * n) = n
BY DEF SecondsFromKuma

LEMMA Singly == \A S : \A x \in S : <<x>> \in Seq(S) /\ <<x>> # <<>>
OBVIOUS

LEMMA HTTPDetail ==
  ASSUME NEW d \in Parts["HTTP"]
  PROVE  LET m == OrDefault(d.method, "", "GET")
             c == OrDefault(d.codes, <<>>, <<"200-299">>)
         IN  /\ m \in NonEmpty /\ c \in Seq(Text) \ {<<>>}
             /\ NormalizeDetail("HTTP", d) =
                   [url |-> d.url, method |-> m, codes |-> c,
                    timeout |-> d.timeout, auth |-> d.auth]
             /\ Sent("HTTP", d) =
                   [url |-> d.url, method |-> m, codes |-> c,
                    timeout |-> 10 * d.timeout, auth |-> d.auth,
                    oauthMethod |-> OauthAuthMethodFor(d.auth)]
<1> DEFINE m == OrDefault(d.method, "", "GET")
           c == OrDefault(d.codes, <<>>, <<"200-299">>)
           q == [url |-> d.url, method |-> m, codes |-> c,
                 timeout |-> d.timeout, auth |-> d.auth]
           k == [url |-> d.url, method |-> m, codes |-> c,
                 timeout |-> 10 * d.timeout, auth |-> d.auth,
                 oauthMethod |-> OauthAuthMethodFor(d.auth)]
<1>1. d \in [url : Text, method : Text, codes : Seq(Text),
             timeout : Int, auth : Text]
  BY DEF Parts
<1>2. d # Nil
  BY NilApart DEF Types, KumaTypes
<1>3. m \in NonEmpty
  BY <1>1, TextAssumption DEF OrDefault, NonEmpty
<1>4. c \in Seq(Text) /\ c # <<>>
  <2>1. <<"200-299">> \in Seq(Text) /\ <<"200-299">> # <<>>
    <3>1. "200-299" \in Text
      BY TextAssumption
    <3> QED
      BY <3>1, Singly
  <2>2. d.codes \in Seq(Text)
    BY <1>1
  <2>3. CASE d.codes = <<>>
    BY <2>1, <2>3 DEF OrDefault
  <2>4. CASE d.codes # <<>>
    BY <2>2, <2>4 DEF OrDefault
  <2> QED
    BY <2>3, <2>4
<1>5. NormalizeDetail("HTTP", d) = q
  <2>1. NormalizeDetail("HTTP", d) = [d EXCEPT !.codes = c, !.method = m]
    BY <1>2 DEF NormalizeDetail
  <2> HIDE DEF m, c
  <2> QED
    BY <1>1, <2>1
<1>6. ToDetail("HTTP", q) = k
  BY DEF ToDetail
<1>7. StoredDetail(k) = k
  <2>1. m # "" /\ c # <<>>
    BY <1>3, <1>4 DEF NonEmpty
  <2> HIDE DEF m, c
  <2>2. DOMAIN k = {"url", "method", "codes", "timeout", "auth", "oauthMethod"}
    OBVIOUS
  <2>3. StoredDetail(k) = [f \in DOMAIN k |-> k[f]]
    <3> HIDE DEF k
    <3>1. k["method"] # "" /\ k["codes"] # <<>> /\ "resolveType" \notin DOMAIN k
      BY <2>1, <2>2 DEF k
    <3> QED
      BY <3>1 DEF StoredDetail, OrDefault
  <2>4. k = [f \in DOMAIN k |-> k[f]]
    OBVIOUS
  <2> QED
    BY <2>3, <2>4
<1> QED
  BY <1>3, <1>4, <1>5, <1>6, <1>7 DEF Sent

(* Kuma's defaults change nothing that has none, or has it set.            *)
LEMMA NothingToFill ==
  ASSUME NEW k, k = [f \in DOMAIN k |-> k[f]],
         "method" \in DOMAIN k => k["method"] # "",
         "codes" \in DOMAIN k => k["codes"] # <<>>,
         "resolveType" \in DOMAIN k => k["resolveType"] # ""
  PROVE  StoredDetail(k) = k
<1>1. \A f \in DOMAIN k :
         (CASE f = "method" -> OrDefault(k[f], "", "GET")
            [] f = "codes" -> OrDefault(k[f], <<>>, <<"200-299">>)
            [] f = "resolveType" -> OrDefault(k[f], "", "A")
            [] OTHER -> k[f]) = k[f]
  BY DEF OrDefault
<1> QED
  BY <1>1 DEF StoredDetail

LEMMA PartShape ==
  /\ \A d \in Parts["TCP"] : /\ d = [host |-> d.host, tlsMode |-> d.tlsMode]
                             /\ d.host \in Text /\ d.tlsMode \in Text
  /\ \A d \in Parts["Ping"] : /\ d = [host |-> d.host, timeout |-> d.timeout]
                              /\ d.host \in Text /\ d.timeout \in Int
  /\ \A d \in Parts["DNS"] :
        /\ d = [host |-> d.host, resolveType |-> d.resolveType]
        /\ d.host \in Text /\ d.resolveType \in Text
  /\ \A d \in Parts["Gamedig"] : /\ d = [host |-> d.host, token |-> d.token]
                                 /\ d.host \in Text /\ d.token \in Text
  /\ \A d \in Parts["Push"] : d = [token |-> d.token] /\ d.token \in Text
BY DEF Parts

(* A part of these types has no defaults.                                  *)
LEMMA PlainPart ==
  \A t \in {"TCP", "Ping", "Gamedig", "Push"} : \A d : NormalizeDetail(t, d) = d
BY DEF NormalizeDetail

LEMMA DNSPart ==
  ASSUME NEW d, d = [host |-> d.host, resolveType |-> d.resolveType], d # Nil
  PROVE  NormalizeDetail("DNS", d) =
            [host |-> d.host, resolveType |-> OrDefault(d.resolveType, "", "A")]
<1>1. NormalizeDetail("DNS", d) =
         [d EXCEPT !.resolveType = OrDefault(d.resolveType, "", "A")]
  BY DEF NormalizeDetail
<1> QED
  BY <1>1

LEMMA HTTPPart ==
  ASSUME NEW d,
         d = [url |-> d.url, method |-> d.method, codes |-> d.codes,
              timeout |-> d.timeout, auth |-> d.auth],
         d # Nil
  PROVE  NormalizeDetail("HTTP", d) =
            [url |-> d.url, method |-> OrDefault(d.method, "", "GET"),
             codes |-> OrDefault(d.codes, <<>>, <<"200-299">>),
             timeout |-> d.timeout, auth |-> d.auth]
<1>1. NormalizeDetail("HTTP", d) =
         [d EXCEPT !.codes = OrDefault(d.codes, <<>>, <<"200-299">>),
                   !.method = OrDefault(d.method, "", "GET")]
  BY DEF NormalizeDetail
<1> QED
  BY <1>1

(* What each type's part is when it is sent.                               *)
LEMMA TCPDetail ==
  ASSUME NEW d \in Parts["TCP"]
  PROVE  Sent("TCP", d) = [host |-> d.host, tlsMode |-> Pointer(d.tlsMode, "")]
<1> DEFINE k == [host |-> d.host, tlsMode |-> Pointer(d.tlsMode, "")]
<1>1. ToDetail("TCP", NormalizeDetail("TCP", d)) = k
  BY PlainPart DEF ToDetail
<1>2. k = [f \in DOMAIN k |-> k[f]] /\ DOMAIN k = {"host", "tlsMode"}
  OBVIOUS
<1>3. StoredDetail(k) = k
  <2> HIDE DEF k
  <2> QED
    BY <1>2, NothingToFill
<1> QED
  BY <1>1, <1>3 DEF Sent

LEMMA PingDetail ==
  ASSUME NEW d \in Parts["Ping"]
  PROVE  Sent("Ping", d) = [host |-> d.host, timeout |-> Pointer(10 * d.timeout, 0)]
<1> DEFINE k == [host |-> d.host, timeout |-> Pointer(10 * d.timeout, 0)]
<1>1. ToDetail("Ping", NormalizeDetail("Ping", d)) = k
  BY PlainPart DEF ToDetail
<1>2. k = [f \in DOMAIN k |-> k[f]] /\ DOMAIN k = {"host", "timeout"}
  OBVIOUS
<1>3. StoredDetail(k) = k
  <2> HIDE DEF k
  <2> QED
    BY <1>2, NothingToFill
<1> QED
  BY <1>1, <1>3 DEF Sent

LEMMA GamedigDetail ==
  ASSUME NEW d \in Parts["Gamedig"]
  PROVE  Sent("Gamedig", d) = [host |-> d.host, token |-> Pointer(d.token, "")]
<1> DEFINE k == [host |-> d.host, token |-> Pointer(d.token, "")]
<1>1. ToDetail("Gamedig", NormalizeDetail("Gamedig", d)) = k
  BY PlainPart DEF ToDetail
<1>2. k = [f \in DOMAIN k |-> k[f]] /\ DOMAIN k = {"host", "token"}
  OBVIOUS
<1>3. StoredDetail(k) = k
  <2> HIDE DEF k
  <2> QED
    BY <1>2, NothingToFill
<1> QED
  BY <1>1, <1>3 DEF Sent

LEMMA PushDetail ==
  ASSUME NEW d \in Parts["Push"]
  PROVE  Sent("Push", d) = d
<1>1. ToDetail("Push", NormalizeDetail("Push", d)) = d
  BY PlainPart DEF ToDetail
<1>2. d = [token |-> d.token]
  BY PartShape
<1>3. d = [f \in DOMAIN d |-> d[f]] /\ DOMAIN d = {"token"}
  BY <1>2
<1>4. StoredDetail(d) = d
  BY <1>3, NothingToFill
<1> QED
  BY <1>1, <1>4 DEF Sent

LEMMA DNSDetail ==
  ASSUME NEW d \in Parts["DNS"]
  PROVE  LET r == OrDefault(d.resolveType, "", "A")
         IN  /\ r \in NonEmpty
             /\ NormalizeDetail("DNS", d) = [host |-> d.host, resolveType |-> r]
             /\ Sent("DNS", d) = [host |-> d.host, resolveType |-> r]
<1> DEFINE r == OrDefault(d.resolveType, "", "A")
           k == [host |-> d.host, resolveType |-> r]
<1>1. d = [host |-> d.host, resolveType |-> d.resolveType] /\ d # Nil
  BY PartShape, NilApart, TypeNames
<1>2. r \in NonEmpty
  BY PartShape, TextAssumption DEF OrDefault, NonEmpty
<1>3. NormalizeDetail("DNS", d) = k
  BY <1>1, DNSPart
<1> HIDE DEF r
<1>4. ToDetail("DNS", k) = k
  BY DEF ToDetail
<1>5. StoredDetail(k) = k
  <2>1. /\ k = [f \in DOMAIN k |-> k[f]] /\ DOMAIN k = {"host", "resolveType"}
        /\ k["resolveType"] # ""
    BY <1>2 DEF NonEmpty
  <2> HIDE DEF k
  <2> QED
    BY <2>1, NothingToFill
<1>6. Sent("DNS", d) = k
  BY <1>3, <1>4, <1>5 DEF Sent
<1> QED
  BY <1>2, <1>3, <1>6 DEF r

-----------------------------------------------------------------------------
LEMMA PointerBack ==
  /\ \A v \in Text : Value(Pointer(v, ""), "") = v
  /\ \A n \in Int : /\ Pointer(10 * n, 0) = Nil => n = 0
                    /\ Pointer(10 * n, 0) # Nil => Pointer(10 * n, 0) = 10 * n
<1>1. \A v \in Text : v # Nil
  BY NilApart
<1>2. \A n \in Int : 10 * n # Nil /\ (10 * n = 0 => n = 0)
  BY NilApart
<1> QED
  BY <1>1, <1>2 DEF Value, Pointer, OrDefault

LEMMA ReadParts ==
  /\ \A h, p : FromDetail("TCP", [host |-> h, tlsMode |-> p])
                 = [host |-> h, tlsMode |-> Value(p, "")]
  /\ \A h, p : FromDetail("Gamedig", [host |-> h, token |-> p])
                 = [host |-> h, token |-> Value(p, "")]
  /\ \A h, n : FromDetail("Ping", [host |-> h, timeout |-> n])
                 = [host |-> h, timeout |-> IF n = Nil THEN 0
                                            ELSE SecondsFromKuma(n)]
BY DEF FromDetail

LEMMA DetailSets ==
  /\ \A h \in Text, p \in Text \cup {Nil} :
        /\ [host |-> h, tlsMode |-> p] \in Details["TCP"]
        /\ [host |-> h, token |-> p] \in Details["Gamedig"]
  /\ \A h \in Text, n \in Int \cup {Nil} :
        [host |-> h, timeout |-> n] \in Details["Ping"]
  /\ \A h \in Text, n \in NonEmpty :
        /\ [host |-> h, resolveType |-> n] \in Details["DNS"]
        /\ [host |-> h, resolveType |-> n] \in Parts["DNS"]
  /\ \A u, a, o \in Text, m \in NonEmpty, c \in Seq(Text) \ {<<>>}, n \in Int :
        /\ [url |-> u, method |-> m, codes |-> c, timeout |-> n, auth |-> a,
            oauthMethod |-> o] \in Details["HTTP"]
        /\ [url |-> u, method |-> m, codes |-> c, timeout |-> n, auth |-> a]
              \in Parts["HTTP"]
<1>1. NonEmpty \in SUBSET Text
  BY DEF NonEmpty
<1> QED
  BY <1>1 DEF Details, Parts

(* The part of any type comes back as it was wanted, normalised, and that  *)
(* is what is compared (ToBremlMonitor, FromBremlMonitor, normalizeSpec).  *)
LEMMA DetailBack ==
  ASSUME NEW t \in Types, NEW d \in Parts[t]
  PROVE  /\ Sent(t, d) \in Details[t]
         /\ NormalizeDetail(t, d) # Nil
         /\ NormalizeDetail(t, FromDetail(t, Sent(t, d))) = NormalizeDetail(t, d)
<1>1. CASE t = "HTTP"
  <2> DEFINE m == OrDefault(d.method, "", "GET")
             c == OrDefault(d.codes, <<>>, <<"200-299">>)
             o == OauthAuthMethodFor(d.auth)
             q == [url |-> d.url, method |-> m, codes |-> c,
                   timeout |-> d.timeout, auth |-> d.auth]
             k == [url |-> d.url, method |-> m, codes |-> c,
                   timeout |-> 10 * d.timeout, auth |-> d.auth,
                   oauthMethod |-> o]
  <2>1. /\ m \in NonEmpty /\ c \in Seq(Text) \ {<<>>}
        /\ NormalizeDetail(t, d) = q /\ Sent(t, d) = k
    BY <1>1, HTTPDetail
  <2>2. d.url \in Text /\ d.auth \in Text /\ d.timeout \in Int
    <3>1. d \in [url : Text, method : Text, codes : Seq(Text),
                 timeout : Int, auth : Text]
      BY <1>1 DEF Parts
    <3> QED
      BY <3>1
  <2>3. o \in Text
    BY TextAssumption DEF OauthAuthMethodFor
  <2> HIDE DEF m, c, o
  <2>4. k \in Details[t] /\ q \in Parts[t] /\ q # Nil
    <3>1. k \in Details["HTTP"]
      <4> DEFINE n == 10 * d.timeout
      <4>1. n \in Int
        BY <2>2
      <4> HIDE DEF n
      <4>2. [url |-> d.url, method |-> m, codes |-> c, timeout |-> n,
             auth |-> d.auth, oauthMethod |-> o] \in Details["HTTP"]
        BY <2>1, <2>2, <2>3, <4>1, DetailSets
      <4> QED
        BY <4>2 DEF n
    <3>2. q \in Parts["HTTP"]
      BY <2>1, <2>2, DetailSets
    <3> HIDE DEF k, q
    <3> QED
      BY <1>1, <3>1, <3>2, NilApart
  <2>5. FromDetail(t, k) = q
    <3>1. FromDetail(t, k) =
             [url |-> d.url, method |-> m, codes |-> c,
              timeout |-> SecondsFromKuma(10 * d.timeout), auth |-> d.auth]
      BY <1>1 DEF FromDetail
    <3> QED
      BY <2>2, <3>1, WholeSeconds
  <2>6. OrDefault(m, "", "GET") = m /\ OrDefault(c, <<>>, <<"200-299">>) = c
    BY <2>1 DEF OrDefault, NonEmpty
  <2>7. NormalizeDetail("HTTP", q) =
           [url |-> d.url, method |-> OrDefault(m, "", "GET"),
            codes |-> OrDefault(c, <<>>, <<"200-299">>),
            timeout |-> d.timeout, auth |-> d.auth]
    <3>1. q = [url |-> q.url, method |-> q.method, codes |-> q.codes,
               timeout |-> q.timeout, auth |-> q.auth]
      OBVIOUS
    <3>2. q # Nil
      BY <2>4
    <3>3. /\ q.url = d.url /\ q.method = m /\ q.codes = c
          /\ q.timeout = d.timeout /\ q.auth = d.auth
      OBVIOUS
    <3> HIDE DEF q
    <3> QED
      BY <3>1, <3>2, <3>3, HTTPPart
  <2> QED
    BY <1>1, <2>1, <2>4, <2>5, <2>6, <2>7
<1>2. CASE t = "TCP"
  <2>1. /\ d = [host |-> d.host, tlsMode |-> d.tlsMode]
        /\ d.host \in Text /\ d.tlsMode \in Text /\ d # Nil
    BY <1>2, PartShape, NilApart
  <2>2. Sent(t, d) = [host |-> d.host, tlsMode |-> Pointer(d.tlsMode, "")]
    BY <1>2, TCPDetail
  <2>3. Pointer(d.tlsMode, "") \in Text \cup {Nil}
    BY <2>1 DEF Pointer, OrDefault
  <2>4. Sent(t, d) \in Details[t]
    BY <1>2, <2>1, <2>2, <2>3, DetailSets
  <2>5. FromDetail(t, Sent(t, d)) = d
    <3>1. FromDetail(t, Sent(t, d)) =
             [host |-> d.host, tlsMode |-> Value(Pointer(d.tlsMode, ""), "")]
      BY <1>2, <2>2, ReadParts
    <3>2. Value(Pointer(d.tlsMode, ""), "") = d.tlsMode
      BY <2>1, PointerBack
    <3> QED
      BY <2>1, <3>1, <3>2
  <2> QED
    BY <1>2, <2>1, <2>4, <2>5, PlainPart
<1>3. CASE t = "Ping"
  <2>1. /\ d = [host |-> d.host, timeout |-> d.timeout]
        /\ d.host \in Text /\ d.timeout \in Int /\ d # Nil
    BY <1>3, PartShape, NilApart
  <2>2. Sent(t, d) = [host |-> d.host, timeout |-> Pointer(10 * d.timeout, 0)]
    BY <1>3, PingDetail
  <2>3. Pointer(10 * d.timeout, 0) \in Int \cup {Nil}
    BY <2>1 DEF Pointer, OrDefault
  <2>4. Sent(t, d) \in Details[t]
    BY <1>3, <2>1, <2>2, <2>3, DetailSets
  <2>5. FromDetail(t, Sent(t, d)) = d
    <3> DEFINE p == Pointer(10 * d.timeout, 0)
    <3>1. (IF p = Nil THEN 0 ELSE SecondsFromKuma(p)) = d.timeout
      BY <2>1, PointerBack, WholeSeconds
    <3> HIDE DEF p
    <3>2. Sent(t, d) = [host |-> d.host, timeout |-> p]
      BY <2>2 DEF p
    <3>3. FromDetail(t, Sent(t, d)) =
             [host |-> d.host,
              timeout |-> IF p = Nil THEN 0 ELSE SecondsFromKuma(p)]
      BY <1>3, <3>2 DEF FromDetail
    <3> QED
      BY <2>1, <3>1, <3>3
  <2> QED
    BY <1>3, <2>1, <2>4, <2>5, PlainPart
<1>4. CASE t = "Gamedig"
  <2>1. /\ d = [host |-> d.host, token |-> d.token]
        /\ d.host \in Text /\ d.token \in Text /\ d # Nil
    BY <1>4, PartShape, NilApart
  <2>2. Sent(t, d) = [host |-> d.host, token |-> Pointer(d.token, "")]
    BY <1>4, GamedigDetail
  <2>3. Pointer(d.token, "") \in Text \cup {Nil}
    BY <2>1 DEF Pointer, OrDefault
  <2>4. Sent(t, d) \in Details[t]
    BY <1>4, <2>1, <2>2, <2>3, DetailSets
  <2>5. FromDetail(t, Sent(t, d)) = d
    <3>1. FromDetail(t, Sent(t, d)) =
             [host |-> d.host, token |-> Value(Pointer(d.token, ""), "")]
      BY <1>4, <2>2, ReadParts
    <3>2. Value(Pointer(d.token, ""), "") = d.token
      BY <2>1, PointerBack
    <3> QED
      BY <2>1, <3>1, <3>2
  <2> QED
    BY <1>4, <2>1, <2>4, <2>5, PlainPart
<1>5. CASE t = "Push"
  <2>1. d = [token |-> d.token] /\ d.token \in Text /\ d # Nil
    BY <1>5, PartShape, NilApart
  <2>2. Sent(t, d) = d
    BY <1>5, PushDetail
  <2>3. Sent(t, d) \in Details[t]
    BY <1>5, <2>1, <2>2 DEF Details
  <2>4. FromDetail(t, Sent(t, d)) = d
    BY <1>5, <2>2 DEF FromDetail
  <2> QED
    BY <1>5, <2>1, <2>3, <2>4, PlainPart
<1>6. CASE t = "DNS"
  <2> DEFINE r == OrDefault(d.resolveType, "", "A")
             k == [host |-> d.host, resolveType |-> r]
  <2>1. r \in NonEmpty /\ NormalizeDetail(t, d) = k /\ Sent(t, d) = k
    BY <1>6, DNSDetail
  <2>2. d.host \in Text /\ TRUE
    BY <1>6, PartShape
  <2> HIDE DEF r
  <2>3. k \in Details[t] /\ k \in Parts[t]
    BY <1>6, <2>1, <2>2, DetailSets
  <2>4. k # Nil
    BY <2>3, NilApart
  <2>5. NormalizeDetail("DNS", k) = [host |-> d.host, resolveType |-> OrDefault(r, "", "A")]
    <3>1. k = [host |-> k.host, resolveType |-> k.resolveType] /\ k # Nil
      BY <2>4
    <3>2. k.host = d.host /\ k.resolveType = r
      OBVIOUS
    <3> HIDE DEF k
    <3> QED
      BY <3>1, <3>2, DNSPart
  <2>6. OrDefault(r, "", "A") = r
    BY <2>1 DEF OrDefault, NonEmpty
  <2>7. FromDetail(t, k) = k
    BY <1>6 DEF FromDetail
  <2> QED
    BY <1>6, <2>1, <2>3, <2>4, <2>5, <2>6, <2>7
<1> QED
  BY <1>1, <1>2, <1>3, <1>4, <1>5, <1>6, TypeNames

LEMMA ManagedFields ==
  /\ \A v : /\ ManagedField("tlsMode", v) = Value(v, "")
            /\ ManagedField("token", v) = Value(v, "")
            /\ ManagedField("timeout", v) = SecondsFromKuma(Value(v, 0))
            /\ ManagedField("oauthMethod", v) = ""
  /\ \A f \in {"host", "url", "method", "codes", "auth", "resolveType"} :
        \A v : ManagedField(f, v) = v
BY DEF ManagedField

LEMMA ManagedParts ==
  /\ \A h, p : ManagedDetail([host |-> h, tlsMode |-> p])
               = [host |-> h, tlsMode |-> Value(p, "")]
  /\ \A h, p : ManagedDetail([host |-> h, token |-> p])
               = [host |-> h, token |-> Value(p, "")]
  /\ \A h, n : ManagedDetail([host |-> h, timeout |-> n])
               = [host |-> h, timeout |-> SecondsFromKuma(Value(n, 0))]
<1>1. ASSUME NEW h, NEW p
      PROVE  ManagedDetail([host |-> h, tlsMode |-> p])
             = [host |-> h, tlsMode |-> Value(p, "")]
  <2> DEFINE k == [host |-> h, tlsMode |-> p]
  <2>1. /\ DOMAIN k = {"host", "tlsMode"}
        /\ k["host"] = h /\ k["tlsMode"] = p
    OBVIOUS
  <2> HIDE DEF k
  <2> DEFINE w == ManagedDetail(k)
  <2>2. /\ w = [f \in DOMAIN w |-> w[f]] /\ DOMAIN w = {"host", "tlsMode"}
        /\ w["host"] = ManagedField("host", h)
        /\ w["tlsMode"] = ManagedField("tlsMode", p)
    BY <2>1 DEF ManagedDetail
  <2>3. w["host"] = h /\ w["tlsMode"] = Value(p, "")
    BY <2>2, ManagedFields
  <2> HIDE DEF w
  <2>4. w = [host |-> h, tlsMode |-> Value(p, "")]
    BY <2>2, <2>3
  <2> QED
    BY <2>4 DEF w, k
<1>2. ASSUME NEW h, NEW p
      PROVE  ManagedDetail([host |-> h, token |-> p])
             = [host |-> h, token |-> Value(p, "")]
  <2> DEFINE k == [host |-> h, token |-> p]
  <2>1. /\ DOMAIN k = {"host", "token"}
        /\ k["host"] = h /\ k["token"] = p
    OBVIOUS
  <2> HIDE DEF k
  <2> DEFINE w == ManagedDetail(k)
  <2>2. /\ w = [f \in DOMAIN w |-> w[f]] /\ DOMAIN w = {"host", "token"}
        /\ w["host"] = ManagedField("host", h)
        /\ w["token"] = ManagedField("token", p)
    BY <2>1 DEF ManagedDetail
  <2>3. w["host"] = h /\ w["token"] = Value(p, "")
    BY <2>2, ManagedFields
  <2> HIDE DEF w
  <2>4. w = [host |-> h, token |-> Value(p, "")]
    BY <2>2, <2>3
  <2> QED
    BY <2>4 DEF w, k
<1>3. ASSUME NEW h, NEW n
      PROVE  ManagedDetail([host |-> h, timeout |-> n])
             = [host |-> h, timeout |-> SecondsFromKuma(Value(n, 0))]
  <2> DEFINE k == [host |-> h, timeout |-> n]
  <2>1. /\ DOMAIN k = {"host", "timeout"}
        /\ k["host"] = h /\ k["timeout"] = n
    OBVIOUS
  <2> HIDE DEF k
  <2> DEFINE w == ManagedDetail(k)
  <2>2. /\ w = [f \in DOMAIN w |-> w[f]] /\ DOMAIN w = {"host", "timeout"}
        /\ w["host"] = ManagedField("host", h)
        /\ w["timeout"] = ManagedField("timeout", n)
    BY <2>1 DEF ManagedDetail
  <2>3. w["host"] = h /\ w["timeout"] = SecondsFromKuma(Value(n, 0))
    BY <2>2, ManagedFields
  <2> HIDE DEF w
  <2>4. w = [host |-> h, timeout |-> SecondsFromKuma(Value(n, 0))]
    BY <2>2, <2>3
  <2> QED
    BY <2>4 DEF w, k
<1> QED
  BY <1>1, <1>2, <1>3

LEMMA ManagedHTTP ==
  ASSUME NEW k, NEW l,
         DOMAIN k = {"url", "method", "codes", "timeout", "auth", "oauthMethod"},
         DOMAIN l = DOMAIN k,
         k["url"] = l["url"], k["method"] = l["method"],
         k["codes"] = l["codes"], k["auth"] = l["auth"],
         SecondsFromKuma(Value(k["timeout"], 0))
            = SecondsFromKuma(Value(l["timeout"], 0))
  PROVE  ManagedDetail(k) = ManagedDetail(l)
<1>1. ASSUME NEW f \in DOMAIN k
      PROVE  ManagedField(f, k[f]) = ManagedField(f, l[f])
  <2>1. CASE f = "timeout"
    <3>1. \A v : ManagedField(f, v) = SecondsFromKuma(Value(v, 0))
      BY <2>1, ManagedFields, Zenon
    <3>2. SecondsFromKuma(Value(k[f], 0)) = SecondsFromKuma(Value(l[f], 0))
      BY <2>1, Zenon
    <3> QED
      BY <3>1, <3>2, Zenon
  <2>2. CASE f = "oauthMethod"
    BY <2>2, ManagedFields
  <2>3. CASE f \in {"url", "method", "codes", "auth"}
    <3>1. ManagedField(f, k[f]) = k[f] /\ ManagedField(f, l[f]) = l[f]
      BY <2>3, ManagedFields
    <3>2. k[f] = l[f]
      BY <2>3
    <3> QED
      BY <3>1, <3>2
  <2> QED
    BY <2>1, <2>2, <2>3
<1> QED
  BY <1>1 DEF ManagedDetail

(* A part of a monitor that is compared and found the same is, in what the *)
(* operator manages of it, the part it would send (Equivalent).            *)
LEMMA DetailAsSent ==
  ASSUME NEW t \in Types, NEW d \in Parts[t], NEW e \in Details[t],
         NormalizeDetail(t, FromDetail(t, e)) = NormalizeDetail(t, d)
  PROVE  ManagedDetail(e) = ManagedDetail(Sent(t, d))
<1>1. CASE t = "HTTP"
  <2>1. PICK u \in Text, m \in NonEmpty, c \in Seq(Text) \ {<<>>}, n \in Int,
             a \in Text, o \in Text :
           e = [url |-> u, method |-> m, codes |-> c, timeout |-> n,
                auth |-> a, oauthMethod |-> o]
    <3>1. e \in [url : Text, method : NonEmpty, codes : Seq(Text) \ {<<>>},
                 timeout : Int, auth : Text, oauthMethod : Text]
      BY <1>1 DEF Details
    <3> QED
      BY <3>1
  <2> DEFINE q == [url |-> u, method |-> m, codes |-> c,
                   timeout |-> SecondsFromKuma(n), auth |-> a]
  <2>2. FromDetail("HTTP", e) = q
    BY <2>1 DEF FromDetail
  <2>3. SecondsFromKuma(n) \in Int
    BY DEF SecondsFromKuma
  <2>4. NormalizeDetail("HTTP", q) = q
    <3>1. q \in Parts["HTTP"]
      BY <2>3, DetailSets
    <3>2. /\ q # Nil /\ q.url = u /\ q.method = m /\ q.codes = c
          /\ q.timeout = SecondsFromKuma(n) /\ q.auth = a
          /\ q = [url |-> q.url, method |-> q.method, codes |-> q.codes,
                  timeout |-> q.timeout, auth |-> q.auth]
      BY <3>1, <1>1, NilApart
    <3>3. OrDefault(m, "", "GET") = m /\ OrDefault(c, <<>>, <<"200-299">>) = c
      BY DEF OrDefault, NonEmpty
    <3>4. NormalizeDetail("HTTP", q) =
             [url |-> q.url, method |-> OrDefault(q.method, "", "GET"),
              codes |-> OrDefault(q.codes, <<>>, <<"200-299">>),
              timeout |-> q.timeout, auth |-> q.auth]
      <4> HIDE DEF q
      <4> QED
        BY <3>2, HTTPPart
    <3> QED
      BY <3>2, <3>3, <3>4
  <2> DEFINE dm == OrDefault(d.method, "", "GET")
             dc == OrDefault(d.codes, <<>>, <<"200-299">>)
             dn == 10 * d.timeout
             do == OauthAuthMethodFor(d.auth)
  <2>5. /\ NormalizeDetail("HTTP", d) =
              [url |-> d.url, method |-> dm, codes |-> dc,
               timeout |-> d.timeout, auth |-> d.auth]
        /\ Sent("HTTP", d) =
              [url |-> d.url, method |-> dm, codes |-> dc, timeout |-> dn,
               auth |-> d.auth, oauthMethod |-> do]
    BY <1>1, HTTPDetail
  <2>6. d.timeout \in Int
    <3>1. d \in [url : Text, method : Text, codes : Seq(Text),
                 timeout : Int, auth : Text]
      BY <1>1 DEF Parts
    <3> QED
      BY <3>1
  <2>7. /\ n # Nil /\ Value(n, 0) = n /\ Value(dn, 0) = dn
        /\ SecondsFromKuma(dn) = d.timeout
    <3>1. dn \in Int
      BY <2>6
    <3>2. SecondsFromKuma(dn) = d.timeout
      BY <2>6, WholeSeconds
    <3> HIDE DEF dn
    <3>3. n # Nil /\ dn # Nil
      BY <3>1, NilApart
    <3> QED
      BY <3>2, <3>3 DEF Value, OrDefault
  <2> HIDE DEF dm, dc, dn, do
  <2>8. q = [url |-> d.url, method |-> dm, codes |-> dc,
             timeout |-> d.timeout, auth |-> d.auth]
    BY <1>1, <2>2, <2>4, <2>5
  <2>9. /\ u = d.url /\ m = dm /\ c = dc /\ SecondsFromKuma(n) = d.timeout
        /\ a = d.auth
    BY <2>8
  <2>10. /\ DOMAIN e = {"url", "method", "codes", "timeout", "auth", "oauthMethod"}
         /\ e["url"] = u /\ e["method"] = m /\ e["codes"] = c
         /\ e["timeout"] = n /\ e["auth"] = a
    BY <2>1
  <2> DEFINE k == Sent("HTTP", d)
  <2>11. /\ DOMAIN k = DOMAIN e
         /\ k["url"] = d.url /\ k["method"] = dm /\ k["codes"] = dc
         /\ k["timeout"] = dn /\ k["auth"] = d.auth
    BY <2>5, <2>10
  <2> HIDE DEF k
  <2>12. ManagedDetail(e) = ManagedDetail(k)
    BY <2>7, <2>9, <2>10, <2>11, ManagedHTTP
  <2> QED
    BY <1>1, <2>12 DEF k
<1>2. CASE t = "TCP"
  <2>1. PICK h \in Text, p \in Text \cup {Nil} : e = [host |-> h, tlsMode |-> p]
    BY <1>2 DEF Details
  <2>2. /\ d = [host |-> d.host, tlsMode |-> d.tlsMode] /\ d.tlsMode \in Text
        /\ Sent(t, d) = [host |-> d.host, tlsMode |-> Pointer(d.tlsMode, "")]
    BY <1>2, PartShape, TCPDetail
  <2>3. FromDetail(t, e) = [host |-> h, tlsMode |-> Value(p, "")]
    BY <1>2, <2>1, ReadParts
  <2>4. [host |-> h, tlsMode |-> Value(p, "")] = d
    <3>1. NormalizeDetail(t, FromDetail(t, e)) = FromDetail(t, e)
      BY <1>2, PlainPart
    <3>2. NormalizeDetail(t, d) = d
      BY <1>2, PlainPart
    <3> QED
      BY <2>3, <3>1, <3>2
  <2>5. h = d.host /\ Value(p, "") = d.tlsMode
    BY <2>4
  <2>6. Value(Pointer(d.tlsMode, ""), "") = d.tlsMode
    BY <2>2, PointerBack
  <2>7. /\ ManagedDetail(e) = [host |-> h, tlsMode |-> Value(p, "")]
        /\ ManagedDetail(Sent(t, d)) =
              [host |-> d.host, tlsMode |-> Value(Pointer(d.tlsMode, ""), "")]
    BY <2>1, <2>2, ManagedParts
  <2> QED
    BY <2>5, <2>6, <2>7
<1>3. CASE t = "Ping"
  <2>1. PICK h \in Text, n \in Int \cup {Nil} : e = [host |-> h, timeout |-> n]
    BY <1>3 DEF Details
  <2> DEFINE p == Pointer(10 * d.timeout, 0)
             s == IF n = Nil THEN 0 ELSE SecondsFromKuma(n)
  <2>2. /\ d.timeout \in Int /\ Sent(t, d) = [host |-> d.host, timeout |-> p]
    BY <1>3, PartShape, PingDetail
  <2>3. FromDetail(t, e) = [host |-> h, timeout |-> s]
    BY <1>3, <2>1, ReadParts
  <2>4. [host |-> h, timeout |-> s] = d
    BY <1>3, <2>3, PlainPart
  <2>5. h = d.host /\ s = d.timeout
    BY <2>4
  <2>6. SecondsFromKuma(0) = 0
    BY DEF SecondsFromKuma
  <2>7. SecondsFromKuma(Value(n, 0)) = s
    BY <2>6 DEF Value, OrDefault
  <2>8. SecondsFromKuma(Value(p, 0)) = d.timeout
    BY <2>2, <2>6, PointerBack, WholeSeconds DEF Value, OrDefault
  <2> HIDE DEF p, s
  <2>9. /\ ManagedDetail(e) = [host |-> h, timeout |-> SecondsFromKuma(Value(n, 0))]
        /\ ManagedDetail(Sent(t, d)) =
              [host |-> d.host, timeout |-> SecondsFromKuma(Value(p, 0))]
    BY <2>1, <2>2, ManagedParts
  <2> QED
    BY <2>5, <2>7, <2>8, <2>9
<1>4. CASE t = "Gamedig"
  <2>1. PICK h \in Text, p \in Text \cup {Nil} : e = [host |-> h, token |-> p]
    BY <1>4 DEF Details
  <2>2. /\ d = [host |-> d.host, token |-> d.token] /\ d.token \in Text
        /\ Sent(t, d) = [host |-> d.host, token |-> Pointer(d.token, "")]
    BY <1>4, PartShape, GamedigDetail
  <2>3. FromDetail(t, e) = [host |-> h, token |-> Value(p, "")]
    BY <1>4, <2>1, ReadParts
  <2>4. [host |-> h, token |-> Value(p, "")] = d
    <3>1. NormalizeDetail(t, FromDetail(t, e)) = FromDetail(t, e)
      BY <1>4, PlainPart
    <3>2. NormalizeDetail(t, d) = d
      BY <1>4, PlainPart
    <3> QED
      BY <2>3, <3>1, <3>2
  <2>5. h = d.host /\ Value(p, "") = d.token
    BY <2>4
  <2>6. Value(Pointer(d.token, ""), "") = d.token
    BY <2>2, PointerBack
  <2>7. /\ ManagedDetail(e) = [host |-> h, token |-> Value(p, "")]
        /\ ManagedDetail(Sent(t, d)) =
              [host |-> d.host, token |-> Value(Pointer(d.token, ""), "")]
    BY <2>1, <2>2, ManagedParts
  <2> QED
    BY <2>5, <2>6, <2>7
<1>5. CASE t = "Push"
  <2>1. FromDetail(t, e) = e /\ Sent(t, d) = d
    BY <1>5, PushDetail DEF FromDetail
  <2>2. e = d
    BY <1>5, <2>1, PlainPart
  <2> QED
    BY <2>1, <2>2
<1>6. CASE t = "DNS"
  <2>1. PICK h \in Text, r \in NonEmpty : e = [host |-> h, resolveType |-> r]
    BY <1>6 DEF Details
  <2>2. FromDetail(t, e) = e
    BY <1>6 DEF FromDetail
  <2>3. e \in Parts["DNS"]
    BY <2>1, DetailSets
  <2>4. e.host = h /\ e.resolveType = r
    BY <2>1
  <2>5. NormalizeDetail("DNS", e) = [host |-> h, resolveType |-> OrDefault(r, "", "A")]
    BY <2>3, <2>4, DNSDetail
  <2>6. OrDefault(r, "", "A") = r
    BY DEF OrDefault, NonEmpty
  <2>7. NormalizeDetail("DNS", d) = Sent("DNS", d)
    BY <1>6, DNSDetail
  <2> QED
    BY <1>6, <2>1, <2>2, <2>5, <2>6, <2>7
<1> QED
  BY <1>1, <1>2, <1>3, <1>4, <1>5, <1>6, TypeNames

-----------------------------------------------------------------------------
(* Whole configurations and monitors.                                      *)

ConfigFields ==
    {"type", "name", "interval", "retryInterval", "resend", "description",
     "notifications", "group", "proxy", "detail"}

MonitorFields ==
    {"type", "name", "interval", "retryInterval", "resend", "description",
     "active", "notifications", "parent", "proxy", "detail"}

IsRecord(r, fields) == r = [f \in fields |-> r[f]]

(* A configuration that may be wanted: of one type, with that type's part, *)
(* its channels sorted, and no proxy where the client would not send it.   *)
Sendable(d) ==
    /\ IsRecord(d, ConfigFields) /\ d.type \in Types
    /\ d.description \in Text /\ d.interval \in Int /\ d.retryInterval \in Int
    /\ ToSet(d.notifications) \in SUBSET ChannelIds
    /\ IsFiniteSet(ToSet(d.notifications))
    /\ d.notifications = Sorted(ToSet(d.notifications))
    /\ d.type = "Push" => d.proxy = Nil
    /\ d.detail \in Parts[d.type]

(* A monitor in Kuma, of whatever type.                                    *)
Monitor(b) ==
    /\ IsRecord(b, MonitorFields) /\ b.active \in BOOLEAN
    /\ b.interval \in Int \ {0} /\ b.retryInterval \in Int \ {0}
    /\ b.notifications \in SUBSET ChannelIds /\ IsFiniteSet(b.notifications)
    /\ \A t \in Types : b.type = KumaTypes[t] => b.detail \in Details[t]

KnownIds ==
    /\ DOMAIN known = Channels \cup Groups
    /\ known = [n \in DOMAIN known |-> known[n]]
    /\ \A n \in Channels : known[n] \in ChannelIds \cup {0}
    /\ \A g \in Groups : known[g] \in GroupIds \cup {0}

IInv ==
    /\ spec \in Specs /\ Admitted(spec)
    /\ KnownIds /\ Monitor(live)
    /\ Sendable(synced) /\ Translatable(synced)
    /\ touched \in 0..MaxTouches
    /\ touched = 0 => live = Stored(ToBreml(synced))

LEMMA NormalFields ==
  ASSUME NEW s, IsRecord(s, ConfigFields)
  PROVE  LET n == Normalize(s)
         IN  /\ IsRecord(n, ConfigFields) /\ DOMAIN n = ConfigFields
             /\ n.interval = OrDefault(s.interval, 0, 60)
             /\ n.retryInterval = OrDefault(s.retryInterval, 0, 60)
             /\ n.detail = NormalizeDetail(s.type, s.detail)
             /\ n.type = s.type /\ n.name = s.name /\ n.resend = s.resend
             /\ n.description = s.description
             /\ n.notifications = s.notifications
             /\ n.group = s.group /\ n.proxy = s.proxy
<1> DEFINE i == OrDefault(s.interval, 0, 60)
           r == OrDefault(s.retryInterval, 0, 60)
           d == NormalizeDetail(s.type, s.detail)
           n == Normalize(s)
<1>1. n = [s EXCEPT !.interval = i, !.retryInterval = r, !.detail = d]
  BY DEF Normalize
<1> HIDE DEF i, r, d, n
<1>2. /\ IsRecord(n, ConfigFields) /\ DOMAIN n = ConfigFields
      /\ n.interval = i /\ n.retryInterval = r /\ n.detail = d
      /\ n.type = s.type /\ n.name = s.name /\ n.resend = s.resend
      /\ n.description = s.description
      /\ n.notifications = s.notifications
      /\ n.group = s.group /\ n.proxy = s.proxy
  BY <1>1 DEF IsRecord, ConfigFields
<1> QED
  BY <1>2 DEF i, r, d, n

(* The monitor that is in Kuma after d was sent.                           *)
LEMMA SentFields ==
  ASSUME NEW d, Sendable(d)
  PROVE  LET b == Stored(ToBreml(d))
         IN  /\ IsRecord(b, MonitorFields) /\ DOMAIN b = MonitorFields
             /\ b.interval = OrDefault(d.interval, 0, 60)
             /\ b.retryInterval = OrDefault(d.retryInterval, 0, 60)
             /\ b.interval \in Int \ {0} /\ b.retryInterval \in Int \ {0}
             /\ b.type = KumaTypes[d.type] /\ b.name = d.name
             /\ b.resend = d.resend
             /\ b.description = Pointer(d.description, "")
             /\ b.active = TRUE /\ b.notifications = ToSet(d.notifications)
             /\ b.parent = d.group /\ b.proxy = d.proxy
             /\ b.detail = Sent(d.type, d.detail)
<1> DEFINE i == OrDefault(d.interval, 0, 60)
           r == OrDefault(d.retryInterval, 0, 60)
           n == Normalize(d)
           p == Pointer(d.description, "")
           e == ToDetail(d.type, NormalizeDetail(d.type, d.detail))
           c == ToBreml(d)
           b == Stored(c)
<1>1. i \in Int \ {0} /\ r \in Int \ {0}
  BY DEF Sendable, OrDefault
<1>2. OrDefault(i, 0, 60) = i /\ OrDefault(r, 0, 60) = r
  BY <1>1 DEF OrDefault
<1>3. IsRecord(d, ConfigFields)
  BY DEF Sendable
<1>4. /\ n.interval = i /\ n.retryInterval = r
      /\ n.detail = NormalizeDetail(d.type, d.detail)
      /\ n.type = d.type /\ n.name = d.name /\ n.resend = d.resend
      /\ n.description = d.description
      /\ n.notifications = d.notifications
      /\ n.group = d.group /\ n.proxy = d.proxy
  BY <1>3, NormalFields
<1>5. c = [type |-> KumaTypes[d.type], name |-> d.name, interval |-> i,
           retryInterval |-> r, resend |-> d.resend, description |-> p,
           active |-> TRUE, notifications |-> d.notifications,
           parent |-> d.group, proxy |-> d.proxy, detail |-> e]
  <2>1. (IF n.type = "Push" THEN Nil ELSE n.proxy) = d.proxy
    BY <1>4 DEF Sendable
  <2>2. c = [type |-> KumaTypes[n.type], name |-> n.name, interval |-> n.interval,
             retryInterval |-> n.retryInterval, resend |-> n.resend,
             description |-> Pointer(n.description, ""), active |-> TRUE,
             notifications |-> n.notifications, parent |-> n.group,
             proxy |-> IF n.type = "Push" THEN Nil ELSE n.proxy,
             detail |-> ToDetail(n.type, n.detail)]
    BY DEF ToBreml
  <2> HIDE DEF n, i, r, c
  <2> QED
    BY <1>4, <2>1, <2>2
<1>6. b = [c EXCEPT !.interval = OrDefault(c.interval, 0, 60),
                    !.retryInterval = OrDefault(c.retryInterval, 0, 60),
                    !.notifications = ToSet(c.notifications),
                    !.detail = StoredDetail(c.detail)]
  BY DEF Stored, StoredDetail
<1> HIDE DEF i, r, n, p, e, c, b
<1>7. b = [type |-> KumaTypes[d.type], name |-> d.name, interval |-> i,
           retryInterval |-> r, resend |-> d.resend, description |-> p,
           active |-> TRUE, notifications |-> ToSet(d.notifications),
           parent |-> d.group, proxy |-> d.proxy, detail |-> StoredDetail(e)]
  <2>1. /\ c.interval = i /\ c.retryInterval = r /\ c.detail = e
        /\ c.notifications = d.notifications
    BY <1>5
  <2>2. b = [c EXCEPT !.interval = i, !.retryInterval = r,
                      !.notifications = ToSet(d.notifications),
                      !.detail = StoredDetail(e)]
    BY <1>2, <1>6, <2>1
  <2> QED
    BY <1>5, <2>2
<1>8. /\ IsRecord(b, MonitorFields) /\ DOMAIN b = MonitorFields
      /\ b.interval = i /\ b.retryInterval = r
      /\ b.type = KumaTypes[d.type] /\ b.name = d.name /\ b.resend = d.resend
      /\ b.description = p /\ b.active = TRUE
      /\ b.notifications = ToSet(d.notifications)
      /\ b.parent = d.group /\ b.proxy = d.proxy /\ b.detail = StoredDetail(e)
  BY <1>7 DEF IsRecord, MonitorFields
<1> QED
  BY <1>1, <1>8 DEF i, r, p, e, c, b, Sent

(* The wanted configuration may be sent, whatever is asked for             *)
(* (resolveReferences, the rules on MonitorSpec).                          *)
LEMMA WantedIds ==
  ASSUME spec \in Specs, KnownIds, Resolvable
  PROVE  LET S == {known[n] : n \in ToSet(spec.notifications)}
         IN  /\ S \in SUBSET ChannelIds /\ S \in SUBSET Nat /\ IsFiniteSet(S)
             /\ NotificationIDs(spec.notifications) = Sorted(S)
             /\ ToSet(Sorted(S)) = S
<1> DEFINE N == ToSet(spec.notifications)
           S == {known[n] : n \in N}
<1>1. spec.notifications \in Seq(Channels)
  BY SpecAssumption
<1>2. N \in SUBSET Channels /\ IsFiniteSet(N)
  BY <1>1, FewElements
<1>3. S \in SUBSET ChannelIds
  BY <1>2 DEF KnownIds, Resolvable
<1>4. S \in SUBSET Nat
  BY <1>3, IdAssumption
<1>5. IsFiniteSet(S)
  <2> HIDE DEF N
  <2>1. [n \in N |-> known[n]] \in Surjection(N, S)
    BY DEF Surjection
  <2> HIDE DEF S
  <2> QED
    BY <1>2, <2>1, FS_Surjection
<1>6. ToSet(Sorted(S)) = S
  <2> HIDE DEF S
  <2> QED
    BY <1>4, <1>5, SortedLists
<1>7. NotificationIDs(spec.notifications) = Sorted(S)
  BY DEF NotificationIDs
<1> QED
  BY <1>3, <1>4, <1>5, <1>6, <1>7

LEMMA DesiredFields ==
  ASSUME spec \in Specs, Admitted(spec)
  PROVE  LET d == Desired
         IN  /\ IsRecord(d, ConfigFields) /\ DOMAIN d = ConfigFields
             /\ d.type = spec.type /\ d.name = spec.name
             /\ d.interval = spec.interval
             /\ d.retryInterval = spec.retryInterval
             /\ d.resend = spec.resend /\ d.description = spec.description
             /\ d.notifications = NotificationIDs(spec.notifications)
             /\ d.group = GroupID(spec.group)
             /\ d.proxy = Pointer(spec.proxy, 0)
             /\ d.detail = spec.parts[spec.type]
<1> DEFINE c == ToKumaSpec(spec)
           d == Desired
           p == Pointer(spec.proxy, 0)
           k == IF spec.type \in DOMAIN spec.parts THEN spec.parts[spec.type] ELSE Nil
           l == NotificationIDs(c.notifications)
           g == GroupID(c.group)
<1>1. c = [type |-> spec.type, name |-> spec.name, interval |-> spec.interval,
           retryInterval |-> spec.retryInterval, resend |-> spec.resend,
           description |-> spec.description,
           notifications |-> spec.notifications, group |-> spec.group,
           proxy |-> p, detail |-> k]
  BY DEF ToKumaSpec
<1>2. k = spec.parts[spec.type]
  BY DEF Admitted
<1>3. d = [c EXCEPT !.notifications = l, !.group = g]
  BY DEF Desired
<1>4. c.notifications = spec.notifications /\ c.group = spec.group
  BY <1>1
<1>5. l = NotificationIDs(spec.notifications) /\ g = GroupID(spec.group)
  BY <1>4
<1> HIDE DEF c, d, p, k, l, g
<1>6. /\ IsRecord(d, ConfigFields) /\ DOMAIN d = ConfigFields
      /\ d.type = spec.type /\ d.name = spec.name
      /\ d.interval = spec.interval /\ d.retryInterval = spec.retryInterval
      /\ d.resend = spec.resend /\ d.description = spec.description
      /\ d.notifications = l /\ d.group = g /\ d.proxy = p /\ d.detail = k
  BY <1>1, <1>3 DEF IsRecord, ConfigFields
<1> QED
  BY <1>2, <1>5, <1>6 DEF d, p

LEMMA DesiredSendable ==
  ASSUME spec \in Specs, Admitted(spec), KnownIds, Resolvable
  PROVE  Sendable(Desired)
<1> DEFINE S == {known[n] : n \in ToSet(spec.notifications)}
           d == Desired
<1>1. /\ S \in SUBSET ChannelIds /\ IsFiniteSet(S)
      /\ NotificationIDs(spec.notifications) = Sorted(S) /\ ToSet(Sorted(S)) = S
  BY WantedIds
<1> HIDE DEF S
<1>2. /\ IsRecord(d, ConfigFields) /\ d.type = spec.type
      /\ d.interval = spec.interval /\ d.retryInterval = spec.retryInterval
      /\ d.description = spec.description /\ d.notifications = Sorted(S)
      /\ d.proxy = Pointer(spec.proxy, 0) /\ d.detail = spec.parts[spec.type]
  BY <1>1, DesiredFields
<1>3. /\ spec.description \in Text /\ spec.interval \in Int
      /\ spec.retryInterval \in Int
      /\ \A t \in Types \cap DOMAIN spec.parts : spec.parts[t] \in Parts[t]
  BY SpecAssumption
<1>4. /\ spec.type \in Types /\ spec.parts[spec.type] \in Parts[spec.type]
      /\ spec.type = "Push" => Pointer(spec.proxy, 0) = Nil
  BY <1>3 DEF Admitted, Pointer, OrDefault
<1> HIDE DEF d
<1>5. Sendable(d)
  BY <1>1, <1>2, <1>3, <1>4 DEF Sendable
<1> QED
  BY <1>5 DEF d

LEMMA SentMonitor ==
  ASSUME NEW d, Sendable(d)
  PROVE  Monitor(Stored(ToBreml(d)))
<1> DEFINE b == Stored(ToBreml(d))
<1>1. /\ IsRecord(b, MonitorFields)
      /\ b.interval \in Int \ {0} /\ b.retryInterval \in Int \ {0}
      /\ b.type = KumaTypes[d.type] /\ b.active = TRUE
      /\ b.notifications = ToSet(d.notifications)
      /\ b.detail = Sent(d.type, d.detail)
  BY SentFields
<1>2. /\ d.type \in Types /\ d.detail \in Parts[d.type]
      /\ ToSet(d.notifications) \in SUBSET ChannelIds
      /\ IsFiniteSet(ToSet(d.notifications))
  BY DEF Sendable
<1>3. Sent(d.type, d.detail) \in Details[d.type]
  BY <1>2, DetailBack
<1>4. \A t \in Types : KumaTypes[t] = KumaTypes[d.type] => t = d.type
  BY <1>2, TypeNames
<1> HIDE DEF b
<1>5. \A t \in Types : b.type = KumaTypes[t] => b.detail \in Details[t]
  BY <1>1, <1>3, <1>4
<1>6. Monitor(b)
  BY <1>1, <1>2, <1>5 DEF Monitor
<1> QED
  BY <1>6 DEF b

(* What FromBremlMonitor reads of a monitor.                               *)
TypeOf(b) == CHOOSE t \in Types : KumaTypes[t] = b.type

LEMMA TypeRead ==
  ASSUME NEW b, NEW t \in Types, b.type = KumaTypes[t]
  PROVE  Readable(b) /\ TypeOf(b) = t
<1>1. (CHOOSE v \in Types : KumaTypes[v] = b.type) = t
  BY TypeNames
<1> QED
  BY <1>1 DEF TypeOf, Readable

LEMMA ReadFields ==
  ASSUME NEW b, NEW order
  PROVE  LET l == FromBreml(b, order)
         IN  /\ IsRecord(l, ConfigFields) /\ l.type = TypeOf(b)
             /\ l.name = b.name /\ l.interval = b.interval
             /\ l.retryInterval = b.retryInterval /\ l.resend = b.resend
             /\ l.description = Value(b.description, "")
             /\ l.notifications = order /\ l.group = b.parent
             /\ l.proxy = b.proxy /\ l.detail = FromDetail(TypeOf(b), b.detail)
<1> DEFINE u == TypeOf(b)
           l == FromBreml(b, order)
           w == Value(b.description, "")
<1>1. l = [type |-> u, name |-> b.name, interval |-> b.interval,
           retryInterval |-> b.retryInterval, resend |-> b.resend,
           description |-> w, notifications |-> order, group |-> b.parent,
           proxy |-> b.proxy, detail |-> FromDetail(u, b.detail)]
  BY DEF FromBreml, TypeOf
<1> HIDE DEF u, l, w
<1>2. /\ IsRecord(l, ConfigFields) /\ l.type = u
      /\ l.name = b.name /\ l.interval = b.interval
      /\ l.retryInterval = b.retryInterval /\ l.resend = b.resend
      /\ l.description = w /\ l.notifications = order /\ l.group = b.parent
      /\ l.proxy = b.proxy /\ l.detail = FromDetail(u, b.detail)
  BY <1>1 DEF IsRecord, ConfigFields
<1> QED
  BY <1>2 DEF u, l, w

(* What was sent, in whatever order Kuma lists its channels, is read as    *)
(* the same configuration.                                                 *)
LEMMA ComesBack ==
  ASSUME NEW d, Sendable(d), NEW b, b = Stored(ToBreml(d)),
         NEW order \in SetToSeqs(b.notifications)
  PROVE  Readable(b) /\ Equivalent(d, FromBreml(b, order))
<1> DEFINE l == FromBreml(b, order)
           n == Normalize(d)
           m == Normalize(l)
<1>1. /\ b.interval = OrDefault(d.interval, 0, 60)
      /\ b.retryInterval = OrDefault(d.retryInterval, 0, 60)
      /\ b.interval \in Int \ {0} /\ b.retryInterval \in Int \ {0}
      /\ b.type = KumaTypes[d.type] /\ b.name = d.name
      /\ b.resend = d.resend /\ b.description = Pointer(d.description, "")
      /\ b.notifications = ToSet(d.notifications)
      /\ b.parent = d.group /\ b.proxy = d.proxy
      /\ b.detail = Sent(d.type, d.detail)
  BY SentFields
<1>2. /\ IsRecord(d, ConfigFields) /\ d.type \in Types
      /\ d.detail \in Parts[d.type] /\ d.description \in Text
      /\ d.notifications = Sorted(ToSet(d.notifications))
      /\ IsFiniteSet(ToSet(d.notifications))
      /\ ToSet(d.notifications) \in SUBSET Nat
  BY IdAssumption DEF Sendable
<1>3. /\ Readable(b) /\ IsRecord(l, ConfigFields) /\ l.type = d.type
      /\ l.name = b.name /\ l.interval = b.interval
      /\ l.retryInterval = b.retryInterval /\ l.resend = b.resend
      /\ l.description = Value(b.description, "")
      /\ l.notifications = order /\ l.group = b.parent
      /\ l.proxy = b.proxy /\ l.detail = FromDetail(d.type, b.detail)
  <2>1. b.type = KumaTypes[d.type] /\ d.type \in Types
    BY <1>1, <1>2
  <2>2. Readable(b) /\ TypeOf(b) = d.type
    BY <2>1, TypeRead
  <2>3. IsRecord(l, ConfigFields) /\ l.type = TypeOf(b)
    BY ReadFields
  <2>4. l.name = b.name /\ l.interval = b.interval
    BY ReadFields
  <2>5. l.retryInterval = b.retryInterval /\ l.resend = b.resend
    BY ReadFields
  <2>6. l.description = Value(b.description, "") /\ l.notifications = order
    BY ReadFields
  <2>7. l.group = b.parent /\ l.proxy = b.proxy
    BY ReadFields
  <2>8. l.detail = FromDetail(TypeOf(b), b.detail)
    BY ReadFields
  <2> HIDE DEF l
  <2> QED
    BY <2>2, <2>3, <2>4, <2>5, <2>6, <2>7, <2>8
<1>4. /\ n.interval = OrDefault(d.interval, 0, 60)
      /\ n.retryInterval = OrDefault(d.retryInterval, 0, 60)
      /\ n.detail = NormalizeDetail(d.type, d.detail)
      /\ n.type = d.type /\ n.name = d.name /\ n.resend = d.resend
      /\ n.description = d.description
      /\ n.notifications = d.notifications
      /\ n.group = d.group /\ n.proxy = d.proxy
  BY <1>2, NormalFields
<1> HIDE DEF l
<1>5. /\ m.interval = OrDefault(l.interval, 0, 60)
      /\ m.retryInterval = OrDefault(l.retryInterval, 0, 60)
      /\ m.detail = NormalizeDetail(l.type, l.detail)
      /\ m.type = l.type /\ m.name = l.name /\ m.resend = l.resend
      /\ m.description = l.description
      /\ m.notifications = l.notifications
      /\ m.group = l.group /\ m.proxy = l.proxy
  BY <1>3, NormalFields
<1> HIDE DEF n, m
<1>6. Value(Pointer(d.description, ""), "") = d.description
  BY <1>2, PointerBack
<1>7. /\ OrDefault(b.interval, 0, 60) = b.interval
      /\ OrDefault(b.retryInterval, 0, 60) = b.retryInterval
  BY <1>1 DEF OrDefault
<1>8. n.detail # Nil /\ n.detail = m.detail
  <2>1. d.type \in Types /\ d.detail \in Parts[d.type]
    BY <1>2
  <2>2. n.detail = NormalizeDetail(d.type, d.detail)
    BY <1>4
  <2>3. m.detail = NormalizeDetail(d.type, FromDetail(d.type, Sent(d.type, d.detail)))
    BY <1>1, <1>3, <1>5
  <2> QED
    BY <2>1, <2>2, <2>3, DetailBack
<1>9. \A f \in Compared : n[f] = m[f]
  <2>1. /\ n.type = m.type /\ n.name = m.name /\ n.resend = m.resend
        /\ n.group = m.group /\ n.proxy = m.proxy
    BY <1>1, <1>3, <1>4, <1>5
  <2>2. n.description = m.description
    BY <1>1, <1>3, <1>4, <1>5, <1>6
  <2>3. n.interval = m.interval /\ n.retryInterval = m.retryInterval
    BY <1>1, <1>3, <1>4, <1>5, <1>7
  <2> QED
    BY <2>1, <2>2, <2>3 DEF Compared
<1>10. EqualInt64Sets(n.notifications, m.notifications)
  <2> DEFINE S == ToSet(d.notifications)
  <2>1. Sorted(S) \in SetToSeqs(S)
    BY <1>2, SortedLists
  <2>2. d.notifications \in SetToSeqs(S) /\ order \in SetToSeqs(S)
    BY <1>1, <1>2, <2>1
  <2> HIDE DEF S
  <2>3. IsFiniteSet(S)
    BY <1>2 DEF S
  <2> QED
    BY <1>3, <1>4, <1>5, <2>2, <2>3, SameLists
<1>11. Equivalent(d, l)
  <2>1. n.type \in Types
    BY <1>2, <1>4
  <2> QED
    BY <1>8, <1>9, <1>10, <2>1 DEF Equivalent, n, m
<1> QED
  BY <1>3, <1>11 DEF l

-----------------------------------------------------------------------------
(* What users do to a monitor in Kuma's UI leaves a monitor of its type.   *)

LEMMA UiFields ==
  /\ \A f \in DOMAIN UiBase : \A v \in UiBase[f] :
        /\ f \in {"interval", "retryInterval", "resend", "name", "description",
                  "active", "parent", "proxy"}
        /\ f \in {"interval", "retryInterval"} => v \in Int \ {0}
        /\ f = "active" => v \in BOOLEAN
  /\ \A f \in DOMAIN UiDetail : \A v \in UiDetail[f] :
        /\ f \in {"url", "host", "auth", "oauthMethod"} => v \in Text
        /\ f \in {"method", "resolveType"} => v \in NonEmpty
        /\ f = "codes" => v \in Seq(Text) \ {<<>>}
        /\ f = "timeout" => v \in Int
        /\ f \in {"tlsMode", "token"} => v \in Text \cup {Nil}
<1>1. ASSUME NEW f \in DOMAIN UiBase, NEW v \in UiBase[f]
      PROVE  /\ f \in {"interval", "retryInterval", "resend", "name",
                       "description", "active", "parent", "proxy"}
             /\ f \in {"interval", "retryInterval"} => v \in Int \ {0}
             /\ f = "active" => v \in BOOLEAN
  BY <1>1, UiAssumption
<1>2. ASSUME NEW f \in DOMAIN UiDetail, NEW v \in UiDetail[f]
      PROVE  /\ f \in {"url", "host", "auth", "oauthMethod"} => v \in Text
             /\ f \in {"method", "resolveType"} => v \in NonEmpty
             /\ f = "codes" => v \in Seq(Text) \ {<<>>}
             /\ f = "timeout" => v \in Int
             /\ f \in {"tlsMode", "token"} => v \in Text \cup {Nil}
  BY <1>2, UiAssumption
<1> QED
  BY <1>1, <1>2

LEMMA DetailEdited ==
  ASSUME NEW t \in Types, NEW e \in Details[t],
         NEW f \in DOMAIN e \cap DOMAIN UiDetail, NEW v \in UiDetail[f]
  PROVE  [e EXCEPT ![f] = v] \in Details[t]
<1>1. /\ f \in {"url", "host", "auth", "oauthMethod"} => v \in Text
      /\ f \in {"method", "resolveType"} => v \in NonEmpty
      /\ f = "codes" => v \in Seq(Text) \ {<<>>}
      /\ f = "timeout" => v \in Int
      /\ f \in {"tlsMode", "token"} => v \in Text \cup {Nil}
  BY UiFields
<1>2. CASE t = "HTTP"
  <2>1. e \in [url : Text, method : NonEmpty, codes : Seq(Text) \ {<<>>},
               timeout : Int, auth : Text, oauthMethod : Text]
    BY <1>2 DEF Details
  <2>2. [e EXCEPT ![f] = v] \in
           [url : Text, method : NonEmpty, codes : Seq(Text) \ {<<>>},
            timeout : Int, auth : Text, oauthMethod : Text]
    BY <1>1, <2>1
  <2> QED
    BY <1>2, <2>2 DEF Details
<1>3. CASE t = "TCP"
  <2>1. e \in [host : Text, tlsMode : Text \cup {Nil}]
    BY <1>3 DEF Details
  <2>2. [e EXCEPT ![f] = v] \in [host : Text, tlsMode : Text \cup {Nil}]
    BY <1>1, <2>1
  <2> QED
    BY <1>3, <2>2 DEF Details
<1>4. CASE t = "Ping"
  <2>1. e \in [host : Text, timeout : Int \cup {Nil}]
    BY <1>4 DEF Details
  <2>2. [e EXCEPT ![f] = v] \in [host : Text, timeout : Int \cup {Nil}]
    BY <1>1, <2>1
  <2> QED
    BY <1>4, <2>2 DEF Details
<1>5. CASE t = "DNS"
  <2>1. e \in [host : Text, resolveType : NonEmpty]
    BY <1>5 DEF Details
  <2>2. [e EXCEPT ![f] = v] \in [host : Text, resolveType : NonEmpty]
    BY <1>1, <2>1
  <2> QED
    BY <1>5, <2>2 DEF Details
<1>6. CASE t = "Gamedig"
  <2>1. e \in [host : Text, token : Text \cup {Nil}]
    BY <1>6 DEF Details
  <2>2. [e EXCEPT ![f] = v] \in [host : Text, token : Text \cup {Nil}]
    BY <1>1, <2>1
  <2> QED
    BY <1>6, <2>2 DEF Details
<1>7. CASE t = "Push"
  <2>1. e \in [token : Text \cup {Nil}]
    BY <1>7 DEF Details
  <2>2. [e EXCEPT ![f] = v] \in [token : Text \cup {Nil}]
    BY <1>1, <2>1
  <2> QED
    BY <1>7, <2>2 DEF Details
<1> QED
  BY <1>2, <1>3, <1>4, <1>5, <1>6, <1>7, TypeNames

LEMMA BaseEdited ==
  ASSUME NEW b, Monitor(b), NEW f \in DOMAIN UiBase, NEW v \in UiBase[f]
  PROVE  Monitor([b EXCEPT ![f] = v])
<1> DEFINE c == [b EXCEPT ![f] = v]
<1>1. /\ f \in MonitorFields /\ f \notin {"type", "detail", "notifications"}
      /\ f \in {"interval", "retryInterval"} => v \in Int \ {0}
      /\ f = "active" => v \in BOOLEAN
  BY UiFields DEF MonitorFields
<1>2. IsRecord(b, MonitorFields) /\ DOMAIN b = MonitorFields
  BY DEF Monitor, IsRecord
<1>3. IsRecord(c, MonitorFields)
  BY <1>2 DEF IsRecord
<1>4. \A g \in MonitorFields : c[g] = IF g = f THEN v ELSE b[g]
  BY <1>2
<1> HIDE DEF c
<1>5. /\ c.type = b.type /\ c.detail = b.detail
      /\ c.notifications = b.notifications
  BY <1>1, <1>4 DEF MonitorFields
<1>6. c.interval \in Int \ {0} /\ c.retryInterval \in Int \ {0}
  BY <1>1, <1>4 DEF MonitorFields, Monitor
<1>7. c.active \in BOOLEAN
  <2>1. CASE f = "active"
    BY <1>1, <1>4, <2>1 DEF MonitorFields
  <2>2. CASE f # "active"
    BY <1>4, <2>2 DEF MonitorFields, Monitor
  <2> QED
    BY <2>1, <2>2
<1>8. Monitor(c)
  BY <1>3, <1>5, <1>6, <1>7 DEF Monitor
<1> QED
  BY <1>8 DEF c

(* Any edit of the channels, the group, or the type with its part.         *)
LEMMA PartEdited ==
  ASSUME NEW b, Monitor(b)
  PROVE  /\ \A s \in SUBSET ChannelIds : IsFiniteSet(s) =>
               Monitor([b EXCEPT !.notifications = s])
         /\ \A p : Monitor([b EXCEPT !.parent = p])
         /\ \A e, k : (\A t \in Types : k = KumaTypes[t] => e \in Details[t]) =>
               Monitor([b EXCEPT !.type = k, !.detail = e])
         /\ \A e : (\A t \in Types : b.type = KumaTypes[t] => e \in Details[t]) =>
               Monitor([b EXCEPT !.detail = e])
<1>1. /\ IsRecord(b, MonitorFields) /\ DOMAIN b = MonitorFields
      /\ b.active \in BOOLEAN
      /\ b.interval \in Int \ {0} /\ b.retryInterval \in Int \ {0}
      /\ b.notifications \in SUBSET ChannelIds /\ IsFiniteSet(b.notifications)
      /\ \A t \in Types : b.type = KumaTypes[t] => b.detail \in Details[t]
  BY DEF Monitor, IsRecord
<1>2. ASSUME NEW s \in SUBSET ChannelIds, IsFiniteSet(s)
      PROVE  Monitor([b EXCEPT !.notifications = s])
  <2> DEFINE c == [b EXCEPT !.notifications = s]
  <2>1. /\ IsRecord(c, MonitorFields) /\ c.active = b.active
        /\ c.interval = b.interval /\ c.retryInterval = b.retryInterval
        /\ c.notifications = s /\ c.type = b.type /\ c.detail = b.detail
    BY <1>1 DEF IsRecord, MonitorFields
  <2> HIDE DEF c
  <2>2. Monitor(c)
    BY <1>1, <1>2, <2>1 DEF Monitor
  <2> QED
    BY <2>2 DEF c
<1>3. ASSUME NEW p PROVE Monitor([b EXCEPT !.parent = p])
  <2> DEFINE c == [b EXCEPT !.parent = p]
  <2>1. /\ IsRecord(c, MonitorFields) /\ c.active = b.active
        /\ c.interval = b.interval /\ c.retryInterval = b.retryInterval
        /\ c.notifications = b.notifications
        /\ c.type = b.type /\ c.detail = b.detail
    BY <1>1 DEF IsRecord, MonitorFields
  <2> HIDE DEF c
  <2>2. Monitor(c)
    BY <1>1, <2>1 DEF Monitor
  <2> QED
    BY <2>2 DEF c
<1>4. ASSUME NEW e, NEW k, \A t \in Types : k = KumaTypes[t] => e \in Details[t]
      PROVE  Monitor([b EXCEPT !.type = k, !.detail = e])
  <2> DEFINE c == [b EXCEPT !.type = k, !.detail = e]
  <2>1. /\ IsRecord(c, MonitorFields) /\ c.active = b.active
        /\ c.interval = b.interval /\ c.retryInterval = b.retryInterval
        /\ c.notifications = b.notifications /\ c.type = k /\ c.detail = e
    BY <1>1 DEF IsRecord, MonitorFields
  <2> HIDE DEF c
  <2>2. Monitor(c)
    BY <1>1, <1>4, <2>1 DEF Monitor
  <2> QED
    BY <2>2 DEF c
<1>5. ASSUME NEW e, \A t \in Types : b.type = KumaTypes[t] => e \in Details[t]
      PROVE  Monitor([b EXCEPT !.detail = e])
  <2> DEFINE c == [b EXCEPT !.detail = e]
  <2>1. /\ IsRecord(c, MonitorFields) /\ c.active = b.active
        /\ c.interval = b.interval /\ c.retryInterval = b.retryInterval
        /\ c.notifications = b.notifications /\ c.type = b.type /\ c.detail = e
    BY <1>1 DEF IsRecord, MonitorFields
  <2> HIDE DEF c
  <2>2. Monitor(c)
    BY <1>1, <1>5, <2>1 DEF Monitor
  <2> QED
    BY <2>2 DEF c
<1> QED
  BY <1>2, <1>3, <1>4, <1>5

-----------------------------------------------------------------------------
(* The inductive invariant: the monitor in Kuma is, until users touch it,  *)
(* the one that was sent.                                                  *)

LEMMA Upserted ==
  ASSUME spec \in Specs, Admitted(spec), KnownIds, Resolvable,
         Translatable(Desired), Upsert
  PROVE  IInv'
<1> DEFINE d == Desired
<1>1. Sendable(d)
  BY DesiredSendable
<1>2. Translatable(d)
  OBVIOUS
<1>3. /\ live' = Stored(ToBreml(d)) /\ synced' = d /\ touched' = 0
      /\ spec' = spec /\ known' = known
  BY DEF Upsert
<1> HIDE DEF d
<1>4. Monitor(Stored(ToBreml(d)))
  BY <1>1, SentMonitor
<1>5. KnownIds'
  BY <1>3 DEF KnownIds
<1>6. 0 \in 0..MaxTouches
  BY BoundAssumption
<1> QED
  BY <1>1, <1>2, <1>3, <1>4, <1>5, <1>6 DEF IInv

LEMMA InitInv == Init => IInv
<1> SUFFICES ASSUME Init PROVE IInv
  OBVIOUS
<1> DEFINE d == Desired
<1>1. KnownIds
  BY DEF Init, KnownIds
<1>2. spec \in Specs /\ Admitted(spec) /\ Resolvable
  BY DEF Init
<1>3. Sendable(d)
  BY <1>1, <1>2, DesiredSendable
<1>4. /\ Translatable(d) /\ synced = d /\ live = Stored(ToBreml(d))
      /\ touched = 0
  BY DEF Init
<1> HIDE DEF d
<1>5. Monitor(Stored(ToBreml(d)))
  BY <1>3, SentMonitor
<1>6. 0 \in 0..MaxTouches
  BY BoundAssumption
<1> QED
  BY <1>1, <1>2, <1>3, <1>4, <1>5, <1>6 DEF IInv

(* Every edit in the UI counts.                                            *)
LEMMA Touched ==
  ASSUME IInv, NEW b, Monitor(b), live' = b, KnownIds',
         touched < MaxTouches, touched' = touched + 1,
         UNCHANGED <<spec, synced>>
  PROVE  IInv'
<1>1. touched' \in 0..MaxTouches /\ touched' # 0
  <2>1. \A n \in 0..MaxTouches : n < MaxTouches =>
           n + 1 \in 0..MaxTouches /\ n + 1 # 0
    BY BoundAssumption
  <2>2. touched \in 0..MaxTouches
    BY DEF IInv
  <2> QED
    BY <2>1, <2>2
<1> QED
  BY <1>1 DEF IInv

LEMMA StepInv == IInv /\ [Next]_vars => IInv'
<1> SUFFICES ASSUME IInv, [Next]_vars PROVE IInv'
  OBVIOUS
<1>1. spec \in Specs /\ Admitted(spec) /\ KnownIds /\ Monitor(live)
  BY DEF IInv
<1>2. CASE ReconcileChanged
  BY <1>1, <1>2, Upserted DEF ReconcileChanged
<1>3. CASE ReconcileDrift
  <2>1. Translatable(Desired)
    BY <1>3 DEF ReconcileDrift, IInv
  <2> QED
    BY <1>1, <1>3, <2>1, Upserted DEF ReconcileDrift
<1>4. CASE UserEdit
  <2>1. /\ spec' \in Specs /\ Admitted(spec')
        /\ UNCHANGED <<known, live, synced, touched>>
    BY <1>4 DEF UserEdit
  <2>2. KnownIds'
    BY <1>1, <2>1 DEF KnownIds
  <2> QED
    BY <2>1, <2>2 DEF IInv
<1>5. CASE UiEdit
  <2>1. PICK b : Monitor(b) /\ Touch(b)
    <3>1. ASSUME NEW f \in DOMAIN UiBase, NEW v \in UiBase[f],
                 Touch([live EXCEPT ![f] = v])
          PROVE  \E b : Monitor(b) /\ Touch(b)
      BY <1>1, <3>1, BaseEdited
    <3>2. ASSUME NEW f \in DOMAIN UiDetail \cap DOMAIN live.detail,
                 NEW v \in UiDetail[f], Touch([live EXCEPT !.detail[f] = v])
          PROVE  \E b : Monitor(b) /\ Touch(b)
      <4> DEFINE e == [live.detail EXCEPT ![f] = v]
      <4>1. \A t \in Types : live.type = KumaTypes[t] => e \in Details[t]
        BY <1>1, DetailEdited DEF Monitor
      <4>2. [live EXCEPT !.detail[f] = v] = [live EXCEPT !.detail = e]
        OBVIOUS
      <4> HIDE DEF e
      <4>3. Monitor([live EXCEPT !.detail = e])
        BY <1>1, <4>1, PartEdited
      <4> QED
        BY <3>2, <4>2, <4>3
    <3>3. ASSUME NEW m \in UiTypes,
                 Touch([live EXCEPT !.type = m.type, !.detail = m.detail])
          PROVE  \E b : Monitor(b) /\ Touch(b)
      <4>1. \A t \in Types : m.type = KumaTypes[t] => m.detail \in Details[t]
        BY UiAssumption
      <4>2. Monitor([live EXCEPT !.type = m.type, !.detail = m.detail])
        BY <1>1, <4>1, PartEdited
      <4> QED
        BY <3>3, <4>2
    <3> QED
      BY <1>5, <3>1, <3>2, <3>3 DEF UiEdit
  <2>2. KnownIds'
    BY <1>1, <2>1 DEF KnownIds, Touch
  <2> QED
    BY <2>1, <2>2, Touched DEF Touch
<1>6. CASE UiChannel
  <2>1. PICK n \in Channels, id \in ChannelIds \cup {0} :
           /\ Renamed(n, id)
           /\ live' = [live EXCEPT !.notifications = live.notifications \ {known[n]}]
    BY <1>6 DEF UiChannel
  <2> DEFINE s == live.notifications \ {known[n]}
  <2>2. s \in SUBSET ChannelIds /\ IsFiniteSet(s)
    BY <1>1, FS_Difference DEF Monitor
  <2> HIDE DEF s
  <2>3. Monitor([live EXCEPT !.notifications = s])
    BY <1>1, <2>2, PartEdited
  <2>4. KnownIds'
    BY <1>1, <2>1, IdAssumption DEF KnownIds, Renamed
  <2> QED
    BY <2>1, <2>3, <2>4, Touched DEF Renamed, s
<1>7. CASE UiGroup
  <2>1. PICK n \in Groups, id \in GroupIds \cup {0} :
           /\ Renamed(n, id)
           /\ live' = [live EXCEPT !.parent =
                          IF live.parent = known[n] THEN Nil ELSE live.parent]
    BY <1>7 DEF UiGroup
  <2> DEFINE p == IF live.parent = known[n] THEN Nil ELSE live.parent
  <2> HIDE DEF p
  <2>3. Monitor([live EXCEPT !.parent = p])
    BY <1>1, PartEdited
  <2>4. KnownIds'
    BY <1>1, <2>1, IdAssumption DEF KnownIds, Renamed
  <2> QED
    BY <2>1, <2>3, <2>4, Touched DEF Renamed, p
<1>8. CASE UNCHANGED vars
  <2>1. UNCHANGED <<spec, known, live, synced, touched>>
    BY <1>8 DEF vars
  <2>2. KnownIds'
    BY <1>1, <2>1 DEF KnownIds
  <2> QED
    BY <2>1, <2>2 DEF IInv
<1> QED
  BY <1>2, <1>3, <1>4, <1>5, <1>6, <1>7, <1>8 DEF Next

LEMMA Inductive == Spec => []IInv
<1>1. Init => IInv
  BY InitInv
<1>2. IInv /\ [Next]_vars => IInv'
  BY StepInv
<1> QED
  BY <1>1, <1>2, PTL DEF Spec

-----------------------------------------------------------------------------
(* Admitted specs, ids Kuma knows, and a monitor with Kuma's parts: and no *)
(* push monitor without a token but one a user made (ToBremlMonitor).      *)
THEOREM TypeCorrect == Spec => []TypeOK
<1>1. IInv => TypeOK
  <2> SUFFICES ASSUME IInv PROVE TypeOK
    OBVIOUS
  <2>1. known \in [Channels \cup Groups -> ChannelIds \cup GroupIds \cup {0}]
    BY DEF IInv, KnownIds
  <2>2. ASSUME live.type = "push", touched = 0 PROVE live.detail.token # ""
    <3> DEFINE d == synced
    <3>1. /\ Sendable(d) /\ Translatable(d) /\ live = Stored(ToBreml(d))
      BY <2>2 DEF IInv
    <3>2. live.type = KumaTypes[d.type] /\ live.detail = Sent(d.type, d.detail)
      BY <3>1, SentFields
    <3>3. KumaTypes["Push"] = "push" /\ "Push" \in Types
      BY DEF KumaTypes, Types
    <3>4. d.type \in Types /\ d.detail \in Parts[d.type]
      BY <3>1 DEF Sendable
    <3>5. d.type = "Push"
      BY <2>2, <3>2, <3>3, <3>4, TypeNames
    <3>6. Sent("Push", d.detail) = d.detail
      BY <3>4, <3>5, PushDetail
    <3>7. d.detail.token # ""
      BY <3>1, <3>5 DEF Translatable
    <3> QED
      BY <3>2, <3>5, <3>6, <3>7
  <2> QED
    BY <2>1, <2>2 DEF IInv, Monitor, TypeOK
<1> QED
  BY <1>1, Inductive, PTL

(* What was sent comes back as the same configuration, in whatever order   *)
(* Kuma lists the channels, for every spec the API server admits: the      *)
(* drift check of a monitor nobody touched finds nothing (Equivalent).     *)
THEOREM SentComesBack == Spec => []RoundTrip
<1>1. IInv => RoundTrip
  <2> SUFFICES ASSUME IInv, touched = 0
               PROVE  /\ Readable(live)
                      /\ \A order \in SetToSeqs(live.notifications) :
                            Equivalent(synced, FromBreml(live, order))
    BY DEF RoundTrip
  <2>1. Sendable(synced) /\ live = Stored(ToBreml(synced))
    BY DEF IInv
  <2>2. \A order \in SetToSeqs(live.notifications) :
           Readable(live) /\ Equivalent(synced, FromBreml(live, order))
    BY <2>1, ComesBack
  <2>3. \E order : order \in SetToSeqs(live.notifications)
    <3>1. live.notifications \in SUBSET Nat /\ IsFiniteSet(live.notifications)
      BY IdAssumption DEF IInv, Monitor
    <3> QED
      BY <3>1, SomeAscending
  <2> QED
    BY <2>2, <2>3
<1> QED
  BY <1>1, Inductive, PTL

LEMMA ManagedMonitor ==
  ASSUME NEW b, NEW c, IsRecord(b, MonitorFields), IsRecord(c, MonitorFields),
         b.type = c.type, b.name = c.name, b.interval = c.interval,
         b.retryInterval = c.retryInterval, b.resend = c.resend,
         Value(b.description, "") = Value(c.description, ""),
         b.notifications = c.notifications, b.parent = c.parent,
         b.proxy = c.proxy, ManagedDetail(b.detail) = ManagedDetail(c.detail)
  PROVE  Managed(b) = Managed(c)
<1> DEFINE w == Value(b.description, "")
           x == Value(c.description, "")
           e == ManagedDetail(b.detail)
           k == ManagedDetail(c.detail)
<1>1. Managed(b) = [b EXCEPT !.active = TRUE, !.description = w, !.detail = e]
  BY DEF Managed, ManagedDetail, ManagedField
<1>2. Managed(c) = [c EXCEPT !.active = TRUE, !.description = x, !.detail = k]
  BY DEF Managed, ManagedDetail, ManagedField
<1>3. w = x /\ e = k
  OBVIOUS
<1> HIDE DEF w, x, e, k
<1>4. [b EXCEPT !.active = TRUE, !.description = w, !.detail = e]
        = [c EXCEPT !.active = TRUE, !.description = w, !.detail = e]
  BY DEF IsRecord, MonitorFields
<1> QED
  BY <1>1, <1>2, <1>3, <1>4

(* A monitor that reads as the wanted configuration is the one that would  *)
(* be sent.                                                                *)
LEMMA SameAsSent ==
  ASSUME NEW d, Sendable(d), NEW b, Monitor(b), Readable(b), NEW order,
         order \in SetToSeqs(b.notifications), Equivalent(d, FromBreml(b, order))
  PROVE  Managed(b) = Managed(Stored(ToBreml(d)))
<1> DEFINE l == FromBreml(b, order)
           n == Normalize(d)
           m == Normalize(l)
           c == Stored(ToBreml(d))
           t == TypeOf(b)
<1>1. /\ IsRecord(b, MonitorFields)
      /\ b.interval \in Int \ {0} /\ b.retryInterval \in Int \ {0}
      /\ b.notifications \in SUBSET ChannelIds /\ IsFiniteSet(b.notifications)
  BY DEF Monitor
<1>2. t \in Types /\ b.type = KumaTypes[t] /\ b.detail \in Details[t]
  <2>1. PICK u \in Types : KumaTypes[u] = b.type
    BY DEF Readable
  <2>2. t = u
    BY <2>1, TypeRead
  <2> QED
    BY <2>1, <2>2 DEF Monitor
<1>3. /\ IsRecord(d, ConfigFields) /\ d.type \in Types
      /\ d.detail \in Parts[d.type] /\ d.description \in Text
      /\ d.notifications = Sorted(ToSet(d.notifications))
      /\ IsFiniteSet(ToSet(d.notifications))
      /\ ToSet(d.notifications) \in SUBSET ChannelIds
      /\ ToSet(d.notifications) \in SUBSET Nat
  BY IdAssumption DEF Sendable
<1>4. /\ IsRecord(l, ConfigFields) /\ l.type = t
      /\ l.name = b.name /\ l.interval = b.interval
      /\ l.retryInterval = b.retryInterval /\ l.resend = b.resend
      /\ l.description = Value(b.description, "")
      /\ l.notifications = order /\ l.group = b.parent
      /\ l.proxy = b.proxy /\ l.detail = FromDetail(t, b.detail)
  BY ReadFields
<1> HIDE DEF t
<1>5. /\ n.interval = OrDefault(d.interval, 0, 60)
      /\ n.retryInterval = OrDefault(d.retryInterval, 0, 60)
      /\ n.detail = NormalizeDetail(d.type, d.detail)
      /\ n.type = d.type /\ n.name = d.name /\ n.resend = d.resend
      /\ n.description = d.description
      /\ n.notifications = d.notifications
      /\ n.group = d.group /\ n.proxy = d.proxy
  BY <1>3, NormalFields
<1>6. /\ \A f \in Compared : n[f] = m[f]
      /\ EqualInt64Sets(n.notifications, m.notifications)
      /\ n.detail = m.detail
  BY DEF Equivalent
<1> HIDE DEF l
<1>7. /\ m.interval = OrDefault(l.interval, 0, 60)
      /\ m.retryInterval = OrDefault(l.retryInterval, 0, 60)
      /\ m.detail = NormalizeDetail(l.type, l.detail)
      /\ m.type = l.type /\ m.name = l.name /\ m.resend = l.resend
      /\ m.description = l.description
      /\ m.notifications = l.notifications
      /\ m.group = l.group /\ m.proxy = l.proxy
  BY <1>4, NormalFields
<1> HIDE DEF n, m
<1>8. /\ n.type = m.type /\ n.name = m.name /\ n.interval = m.interval
      /\ n.retryInterval = m.retryInterval /\ n.resend = m.resend
      /\ n.description = m.description /\ n.group = m.group /\ n.proxy = m.proxy
  BY <1>6 DEF Compared
<1>9. /\ c.interval = OrDefault(d.interval, 0, 60)
      /\ c.retryInterval = OrDefault(d.retryInterval, 0, 60)
      /\ IsRecord(c, MonitorFields)
      /\ c.type = KumaTypes[d.type] /\ c.name = d.name /\ c.resend = d.resend
      /\ c.description = Pointer(d.description, "")
      /\ c.notifications = ToSet(d.notifications)
      /\ c.parent = d.group /\ c.proxy = d.proxy
      /\ c.detail = Sent(d.type, d.detail)
  BY SentFields
<1> HIDE DEF c
<1>10. d.type = t
  BY <1>4, <1>5, <1>7, <1>8
<1>11. /\ b.type = c.type /\ b.name = c.name /\ b.resend = c.resend
       /\ b.parent = c.parent /\ b.proxy = c.proxy
  <2>1. b.type = c.type
    BY <1>2, <1>9, <1>10
  <2>2. b.name = c.name /\ b.resend = c.resend
    BY <1>4, <1>5, <1>7, <1>8, <1>9
  <2>3. b.parent = c.parent /\ b.proxy = c.proxy
    BY <1>4, <1>5, <1>7, <1>8, <1>9
  <2> QED
    BY <2>1, <2>2, <2>3
<1>12. b.interval = c.interval /\ b.retryInterval = c.retryInterval
  <2>1. /\ OrDefault(b.interval, 0, 60) = b.interval
        /\ OrDefault(b.retryInterval, 0, 60) = b.retryInterval
    BY <1>1 DEF OrDefault
  <2> QED
    BY <1>4, <1>5, <1>7, <1>8, <1>9, <2>1
<1>13. Value(b.description, "") = Value(c.description, "")
  <2>1. Value(Pointer(d.description, ""), "") = d.description
    BY <1>3, PointerBack
  <2> QED
    BY <1>4, <1>5, <1>7, <1>8, <1>9, <2>1
<1>14. b.notifications = c.notifications
  <2> DEFINE S == ToSet(d.notifications)
  <2>1. Sorted(S) \in SetToSeqs(S)
    BY <1>3, SortedLists
  <2>2. d.notifications \in SetToSeqs(S)
    BY <1>3, <2>1
  <2>3. order \in Seq(b.notifications) /\ ToSet(order) = b.notifications
    BY <1>1, ListOf
  <2>4. d.notifications \in Seq(S)
    BY <1>3, <2>2, ListOf
  <2> HIDE DEF S
  <2>5. S \in SUBSET ChannelIds
    BY <1>3 DEF S
  <2>6. order \in Seq(ChannelIds) /\ d.notifications \in Seq(ChannelIds)
    BY <1>1, <2>3, <2>4, <2>5
  <2>7. EqualInt64Sets(d.notifications, order)
    BY <1>4, <1>5, <1>6, <1>7
  <2>8. ToSet(d.notifications) = ToSet(order)
    BY <2>6, <2>7, SameElements
  <2> QED
    BY <1>9, <2>3, <2>8
<1>15. ManagedDetail(b.detail) = ManagedDetail(c.detail)
  <2>1. d.detail \in Parts[t]
    BY <1>3, <1>10
  <2>2. NormalizeDetail(t, FromDetail(t, b.detail)) = NormalizeDetail(t, d.detail)
    BY <1>4, <1>5, <1>6, <1>7, <1>10
  <2>3. ManagedDetail(b.detail) = ManagedDetail(Sent(t, d.detail))
    BY <1>2, <2>1, <2>2, DetailAsSent
  <2> QED
    BY <1>9, <1>10, <2>3
<1>16. IsRecord(b, MonitorFields) /\ IsRecord(c, MonitorFields)
  BY <1>1, <1>9
<1>17. Managed(b) = Managed(c)
  BY <1>11, <1>12, <1>13, <1>14, <1>15, <1>16, ManagedMonitor
<1> QED
  BY <1>17 DEF c

(* A monitor that the drift check leaves alone is, in all the operator     *)
(* manages, the one it would send: no edit of a managed field in Kuma's UI *)
(* passes for none (ExistingSpecs, Equivalent).                            *)
THEOREM LeftAloneCorrect == Spec => []LeftAloneIsAsSent
<1>1. IInv => LeftAloneIsAsSent
  <2> SUFFICES ASSUME IInv, Settled
               PROVE  Managed(live) = Managed(Stored(ToBreml(Desired)))
    BY DEF LeftAloneIsAsSent
  <2> DEFINE d == Desired
  <2>1. Sendable(synced) /\ synced = d /\ Monitor(live)
    BY DEF IInv, Settled
  <2>2. Readable(live)
    BY DEF Settled, Listable
  <2>3. PICK order \in SetToSeqs(live.notifications) :
           Equivalent(d, FromBreml(live, order))
    BY DEF Settled, Unchanged
  <2> HIDE DEF d
  <2>4. Managed(live) = Managed(Stored(ToBreml(d)))
    BY <2>1, <2>2, <2>3, SameAsSent
  <2> QED
    BY <2>4 DEF d
<1> QED
  BY <1>1, Inductive, PTL

(* Configurations that mean the same are the same: the ids are sorted.     *)
LEMMA SameMeaning ==
  ASSUME NEW d, Sendable(d), NEW e, Sendable(e), Meaning(d) = Meaning(e)
  PROVE  d = e
<1> DEFINE S == ToSet(d.notifications)
           T == ToSet(e.notifications)
<1>1. /\ IsRecord(d, ConfigFields) /\ IsRecord(e, ConfigFields)
      /\ d.notifications = Sorted(S) /\ e.notifications = Sorted(T)
  BY DEF Sendable
<1>2. [d EXCEPT !.notifications = S] = [e EXCEPT !.notifications = T]
  BY DEF Meaning
<1> HIDE DEF S, T
<1>3. DOMAIN d = ConfigFields /\ DOMAIN e = ConfigFields
  BY <1>1 DEF IsRecord
<1>4. S = T
  BY <1>2, <1>3 DEF ConfigFields
<1>5. ASSUME NEW f \in ConfigFields, f # "notifications" PROVE d[f] = e[f]
  <2>1. /\ [d EXCEPT !.notifications = S][f] = d[f]
        /\ [e EXCEPT !.notifications = T][f] = e[f]
    BY <1>3, <1>5
  <2> QED
    BY <1>2, <2>1
<1>6. \A f \in ConfigFields : d[f] = e[f]
  BY <1>1, <1>4, <1>5
<1> QED
  BY <1>1, <1>6 DEF IsRecord

(* The operator edits a monitor only when another configuration is wanted  *)
(* than was sent, whatever the order and repetition of its channels, or    *)
(* when somebody touched the monitor or what it refers to since            *)
(* (resolveReferences, the hash of the configuration, the drift check).    *)
THEOREM EditsNeeded == Spec => EditsAreNeeded
<1> DEFINE Step == ReconcileChanged \/ ReconcileDrift =>
                      touched > 0 \/ Meaning(Desired) # Meaning(synced)
<1>1. ASSUME IInv, ReconcileChanged PROVE Meaning(Desired) # Meaning(synced)
  <2> DEFINE d == Desired
  <2>1. Sendable(d)
    BY <1>1, DesiredSendable DEF IInv, ReconcileChanged
  <2>2. Sendable(synced) /\ synced # d
    BY <1>1 DEF IInv, ReconcileChanged
  <2> HIDE DEF d
  <2>3. Meaning(d) # Meaning(synced)
    BY <2>1, <2>2, SameMeaning
  <2> QED
    BY <2>3 DEF d
<1>2. ASSUME IInv, ReconcileDrift PROVE touched > 0
  <2>1. ASSUME touched = 0 PROVE FALSE
    <3> DEFINE d == Desired
    <3>1. /\ Sendable(synced) /\ synced = d
          /\ live = Stored(ToBreml(synced))
      BY <1>2, <2>1 DEF IInv, ReconcileDrift
    <3>2. PICK order : order \in SetToSeqs(live.notifications)
      <4>1. live.notifications \in SUBSET Nat /\ IsFiniteSet(live.notifications)
        BY <1>2, IdAssumption DEF IInv, Monitor
      <4> QED
        BY <4>1, SomeAscending
    <3> HIDE DEF d
    <3>3. Equivalent(d, FromBreml(live, order))
      BY <3>1, <3>2, ComesBack
    <3>4. ~ \E o \in SetToSeqs(live.notifications) :
               Equivalent(d, FromBreml(live, o))
      BY <1>2 DEF ReconcileDrift, Unchanged, d
    <3> QED
      BY <3>2, <3>3, <3>4
  <2>2. touched \in Nat
    BY <1>2, BoundAssumption DEF IInv
  <2> QED
    BY <2>1, <2>2
<1>3. IInv /\ [Next]_vars => [Step]_vars
  BY <1>1, <1>2
<1> QED
  BY <1>3, Inductive, PTL DEF Spec, EditsAreNeeded
=============================================================================
