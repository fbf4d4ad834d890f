-------------------------- MODULE RoutePolicy_proofs --------------------------
(***************************************************************************)
(* What RoutePolicy promises for every request of the declared type, every *)
(* inventory and every storage limit.                                      *)
(***************************************************************************)
EXTENDS RoutePolicy, TLAPS

\* q is p but for fields S.
But(p, q, S) == \A f \in Field \ S : q[f] = p[f]
IsRecord(p) == p = [f \in Field |-> p[f]]

Filled(p) ==
    [p EXCEPT !.source = Or(p.source, SourceFromFlat(p)),
              !.destinations = IF p.destinations # <<>> \/ p.destination_url = None
                               THEN p.destinations
                               ELSE <<DestinationFromFlat(p.destination_url)>>]

-----------------------------------------------------------------------------
(* What normalisation does to each field.                                  *)

LEMMA FilledEffect ==
    ASSUME NEW p, IsRecord(p)
    PROVE  LET n == Filled(p)
           IN  /\ IsRecord(n) /\ But(p, n, {"source", "destinations"})
               /\ n.source = Or(p.source, SourceFromFlat(p))
               /\ n.destinations = IF p.destinations # <<>> \/ p.destination_url = None
                                   THEN p.destinations
                                   ELSE <<DestinationFromFlat(p.destination_url)>>
BY DEF Filled, IsRecord, But, Field

LEMMA SourceEffect ==
    ASSUME NEW p, IsRecord(p)
    PROVE  LET n == DeriveSource(p)
               s == p.source
               hls == s.protocol = "hls"
           IN  /\ IsRecord(n)
               /\ But(p, n, {"protocol", "mode", "streamid", "url", "ip", "port"})
               /\ n.protocol = s.protocol
               /\ n.mode = Or(s.mode, p.mode) /\ n.streamid = Or(s.streamid, p.streamid)
               /\ hls => n.url = Or(s.url, p.url) /\ n.port = None /\ n.ip = p.ip
               /\ ~hls => n.url = p.url
               /\ ~hls /\ s.endpoint = None => n.ip = p.ip /\ n.port = p.port
               /\ ~hls /\ s.endpoint # None =>
                      n.ip = s.endpoint.address /\ n.port = Or(s.endpoint.port, p.port)
<1> DEFINE s == p.source
           a == Or(s.mode, p.mode)
           b == Or(s.streamid, p.streamid)
           c == Or(s.url, p.url)
           d == s.protocol
           flat == [p EXCEPT !.protocol = d, !.mode = a, !.streamid = b]
           n == DeriveSource(p)
<1>1. n = IF d = "hls" THEN [flat EXCEPT !.url = c, !.port = None]
          ELSE IF s.endpoint = None THEN flat
          ELSE [flat EXCEPT !.ip = s.endpoint.address, !.port = Or(s.endpoint.port, p.port)]
  BY DEF DeriveSource
<1> HIDE DEF a, b, c, d
<1>2. /\ IsRecord(flat) /\ But(p, flat, {"protocol", "mode", "streamid"})
      /\ flat.protocol = d /\ flat.mode = a /\ flat.streamid = b
  BY DEF IsRecord, But, Field
<1> HIDE DEF flat, n, s
<1>3. CASE d = "hls"
  <2>1. n = [flat EXCEPT !.url = c, !.port = None]
    BY <1>1, <1>3
  <2>2. /\ IsRecord(n) /\ But(flat, n, {"url", "port"}) /\ n.url = c /\ n.port = None
    BY <1>2, <2>1 DEF IsRecord, But, Field
  <2> QED  BY <1>2, <1>3, <2>2 DEF But, Field, n, s, a, b, c, d
<1>4. CASE d # "hls" /\ s.endpoint = None
  <2>1. n = flat
    BY <1>1, <1>4
  <2> QED  BY <1>2, <1>4, <2>1 DEF But, Field, n, s, a, b, c, d
<1>5. CASE d # "hls" /\ s.endpoint # None
  <2> DEFINE e == s.endpoint.address
             g == Or(s.endpoint.port, p.port)
  <2>1. n = [flat EXCEPT !.ip = e, !.port = g]
    BY <1>1, <1>5
  <2> HIDE DEF e, g
  <2>2. /\ IsRecord(n) /\ But(flat, n, {"ip", "port"}) /\ n.ip = e /\ n.port = g
    BY <1>2, <2>1 DEF IsRecord, But, Field
  <2> QED  BY <1>2, <1>5, <2>2 DEF But, Field, n, s, a, b, c, d, e, g
<1> QED  BY <1>3, <1>4, <1>5

LEMMA DestinationEffect ==
    ASSUME NEW p, IsRecord(p)
    PROVE  LET n == DeriveDestination(p)
           IN  /\ IsRecord(n) /\ But(p, n, {"destination_url"})
               /\ n.destination_url = IF Enabled(p.destinations) = {} THEN p.destination_url
                                      ELSE LegacyUrl(FirstEnabled(p.destinations))
BY DEF DeriveDestination, IsRecord, But, Field

\* n is p in normal form.
NormalFormOf(n, p) ==
    LET s == n.source
        hls == s.protocol = "hls"
    IN  /\ IsRecord(n)
        /\ But(p, n, {"source", "destinations", "protocol", "mode", "streamid",
                      "url", "ip", "port", "destination_url"})
        /\ s = Or(p.source, SourceFromFlat(p))
        /\ n.protocol = s.protocol
        /\ n.mode = Or(s.mode, p.mode) /\ n.streamid = Or(s.streamid, p.streamid)
        /\ hls => n.url = Or(s.url, p.url) /\ n.port = None /\ n.ip = p.ip
        /\ ~hls => n.url = p.url
        /\ ~hls /\ s.endpoint = None => n.ip = p.ip /\ n.port = p.port
        /\ ~hls /\ s.endpoint # None =>
               n.ip = s.endpoint.address /\ n.port = Or(s.endpoint.port, p.port)
        /\ n.destinations = (IF p.destinations # <<>> \/ p.destination_url = None
                             THEN p.destinations
                             ELSE <<DestinationFromFlat(p.destination_url)>>)
        /\ n.destination_url = IF Enabled(n.destinations) = {} THEN p.destination_url
                               ELSE LegacyUrl(FirstEnabled(n.destinations))

LEMMA NormalForm ==
    ASSUME NEW p, IsRecord(p)
    PROVE  NormalFormOf(Normalize(p), p)
<1> DEFINE f == Filled(p)
           d == DeriveSource(f)
           n == DeriveDestination(d)
<1>1. Normalize(p) = n
  BY DEF Normalize, Filled
<1>2. /\ IsRecord(f) /\ But(p, f, {"source", "destinations"})
      /\ f.source = Or(p.source, SourceFromFlat(p))
      /\ f.destinations = IF p.destinations # <<>> \/ p.destination_url = None
                          THEN p.destinations
                          ELSE <<DestinationFromFlat(p.destination_url)>>
  BY FilledEffect
<1> HIDE DEF f
<1>3. LET s == f.source
          hls == s.protocol = "hls"
      IN  /\ IsRecord(d)
          /\ But(f, d, {"protocol", "mode", "streamid", "url", "ip", "port"})
          /\ d.protocol = s.protocol
          /\ d.mode = Or(s.mode, f.mode) /\ d.streamid = Or(s.streamid, f.streamid)
          /\ hls => d.url = Or(s.url, f.url) /\ d.port = None /\ d.ip = f.ip
          /\ ~hls => d.url = f.url
          /\ ~hls /\ s.endpoint = None => d.ip = f.ip /\ d.port = f.port
          /\ ~hls /\ s.endpoint # None =>
                 d.ip = s.endpoint.address /\ d.port = Or(s.endpoint.port, f.port)
  BY <1>2, SourceEffect
<1> HIDE DEF d
<1>4. /\ IsRecord(n) /\ But(d, n, {"destination_url"})
      /\ n.destination_url = IF Enabled(d.destinations) = {} THEN d.destination_url
                             ELSE LegacyUrl(FirstEnabled(d.destinations))
  BY <1>3, DestinationEffect
<1> HIDE DEF n
<1>5. /\ n.source = d.source /\ n.destinations = d.destinations /\ n.protocol = d.protocol
      /\ n.mode = d.mode /\ n.streamid = d.streamid /\ n.url = d.url /\ n.ip = d.ip
      /\ n.port = d.port
  BY <1>4 DEF But, Field
<1>6. /\ d.source = f.source /\ d.destinations = f.destinations
      /\ d.destination_url = f.destination_url
  BY <1>3 DEF But, Field
<1>7. /\ f.mode = p.mode /\ f.streamid = p.streamid /\ f.url = p.url /\ f.ip = p.ip
      /\ f.port = p.port /\ f.destination_url = p.destination_url
  BY <1>2 DEF But, Field
<1>8. But(p, n, {"source", "destinations", "protocol", "mode", "streamid",
                 "url", "ip", "port", "destination_url"})
  BY <1>2, <1>3, <1>4 DEF But
<1> QED  BY <1>1, <1>2, <1>3, <1>4, <1>5, <1>6, <1>7, <1>8 DEF NormalFormOf

-----------------------------------------------------------------------------
(* What is in the fields.                                                  *)

LEMMA Absent ==
    /\ None \notin Text /\ None \notin Port /\ None \notin SourceConfig
    /\ None \notin RouteEndpoint /\ None \notin DestinationUrl /\ None \notin Target
<1>1. None \notin Text /\ None \notin Int
  BY NoneAssumption
<1>2. /\ None \notin SourceConfig /\ None \notin RouteEndpoint
      /\ None \notin DestinationUrl /\ None \notin Target
  BY NoneAssumption
<1>3. Port \subseteq Int
  BY DEF Port
<1>4. None \notin Port
  BY <1>1, <1>3
<1> QED  BY <1>1, <1>2, <1>4

LEMMA FlatSource ==
    ASSUME NEW p, IsServiceConfig(p)
    PROVE  LET s == SourceFromFlat(p)
           IN  /\ s \in SourceConfig /\ s.protocol = p.protocol
               /\ p.protocol = "hls" => /\ s.endpoint = None /\ s.mode = None
                                        /\ s.url = p.url /\ s.streamid = None
               /\ p.protocol # "hls" =>
                      /\ s.endpoint = [address |-> p.ip, port |-> p.port,
                                       bind |-> None, interface |-> None]
                      /\ s.endpoint \in RouteEndpoint
                      /\ s.mode = p.mode /\ s.url = None
                      /\ s.streamid = IF p.protocol = "srt" THEN p.streamid ELSE None
               /\ p.protocol = "udp" => (s.type = "multicast" <=> p.ip \in Group)
<1> DEFINE s == SourceFromFlat(p)
           e == [address |-> p.ip, port |-> p.port, bind |-> None, interface |-> None]
<1>1. e \in RouteEndpoint
  BY DEF IsServiceConfig, RouteEndpoint, Maybe
<1> HIDE DEF e
<1>2. CASE p.protocol = "hls"
  <2>1. s = [protocol |-> "hls", type |-> None, mode |-> None, endpoint |-> None,
             url |-> p.url, streamid |-> None]
    BY <1>2 DEF SourceFromFlat
  <2> HIDE DEF s
  <2>2. s \in SourceConfig
    BY <2>1 DEF IsServiceConfig, SourceConfig, Maybe
  <2> QED  BY <1>2, <2>1, <2>2 DEF s
<1>3. CASE p.protocol # "hls"
  <2> DEFINE type == CASE p.protocol # "udp" -> None
                       [] p.protocol = "udp" /\ p.ip \in Group -> "multicast"
                       [] p.protocol = "udp" /\ p.ip \notin Group -> "unicast"
             name == IF p.protocol = "srt" THEN p.streamid ELSE None
  <2>1. s = [protocol |-> p.protocol, type |-> type, mode |-> p.mode, endpoint |-> e,
             url |-> None, streamid |-> name]
    BY <1>3 DEF SourceFromFlat, e
  <2>2. /\ type \in {None, "unicast", "multicast"}
        /\ p.protocol = "udp" => (type = "multicast" <=> p.ip \in Group)
    OBVIOUS
  <2>3. name \in Maybe(Text)
    BY DEF IsServiceConfig, Maybe
  <2> HIDE DEF s, type, name
  <2>4. s \in SourceConfig
    BY <1>1, <2>1, <2>2, <2>3 DEF IsServiceConfig, SourceConfig, Maybe
  <2> QED  BY <1>1, <1>3, <2>1, <2>2, <2>4 DEF s, e, name
<1> QED  BY <1>2, <1>3

\* The validator's change shows in one switch.
LEMMA ParsedEffect ==
    ASSUME NEW p, IsServiceConfig(p)
    PROVE  LET n == Parsed(p)
           IN  /\ IsServiceConfig(n) /\ IsRecord(n) /\ But(p, n, {"low"})
               /\ n.low.on = (p.low.on \/ p.preview) /\ n.low.seconds = p.low.seconds
<1> DEFINE low == [p.low EXCEPT !.on = @ \/ p.preview]
           n == [p EXCEPT !.low = low]
<1>1. low \in HlsOutputProfile /\ low.on = (p.low.on \/ p.preview)
      /\ low.seconds = p.low.seconds
  BY DEF IsServiceConfig, HlsOutputProfile
<1>2. Parsed(p) = n
  BY DEF Parsed
<1> HIDE DEF low
<1>3. IsRecord(n) /\ But(p, n, {"low"}) /\ n.low = low
  BY DEF IsServiceConfig, IsRecord, But, Field
<1> HIDE DEF n
<1>4. IsServiceConfig(n)
  BY <1>1, <1>3 DEF IsServiceConfig, IsRecord, But, Field
<1> QED  BY <1>1, <1>2, <1>3, <1>4

\* The source that a normal form has, whether it was given or derived.
LEMMA NormalSource ==
    ASSUME NEW p, IsServiceConfig(p)
    PROVE  LET n == Normalize(p)
           IN  n.source \in SourceConfig /\ n.source # None
<1>1. Or(p.source, SourceFromFlat(p)) \in SourceConfig
  BY FlatSource DEF Or, IsServiceConfig, Maybe
<1>2. IsRecord(p)
  BY DEF IsServiceConfig, IsRecord
<1> DEFINE n == Normalize(p)
<1>3. n.source = Or(p.source, SourceFromFlat(p))
  BY <1>2, NormalForm DEF NormalFormOf
<1> HIDE DEF n
<1> QED  BY <1>1, <1>3, Absent DEF n

LEMMA SameSource ==
    ASSUME NEW p, NEW q, \A f \in {"protocol", "ip", "port", "mode", "url", "streamid"} :
                             q[f] = p[f]
    PROVE  SourceFromFlat(q) = SourceFromFlat(p)
<1>1. /\ q.protocol = p.protocol /\ q.ip = p.ip /\ q.port = p.port /\ q.mode = p.mode
      /\ q.url = p.url /\ q.streamid = p.streamid
  OBVIOUS
<1> QED  BY <1>1 DEF SourceFromFlat

\* Two configs that differ in a switch have normal forms that do.
LEMMA ParsedNormal ==
    ASSUME NEW p, IsServiceConfig(p)
    PROVE  LET q == Normalize(Parsed(p))
               n == Normalize(p)
           IN  But(n, q, {"low"}) /\ q.low = Parsed(p).low
<1> DEFINE r == Parsed(p)
           q == Normalize(r)
           n == Normalize(p)
<1>1. IsRecord(p)
  BY DEF IsServiceConfig, IsRecord
<1>2. IsRecord(r) /\ But(p, r, {"low"})
  BY ParsedEffect
<1> HIDE DEF r
<1>3. /\ r.protocol = p.protocol /\ r.ip = p.ip /\ r.port = p.port /\ r.mode = p.mode
      /\ r.url = p.url /\ r.streamid = p.streamid /\ r.source = p.source
      /\ r.destinations = p.destinations /\ r.destination_url = p.destination_url
  BY <1>2 DEF But, Field
<1>4. SourceFromFlat(r) = SourceFromFlat(p)
  BY <1>3, SameSource
<1>5. NormalFormOf(q, r) /\ NormalFormOf(n, p)
  BY <1>1, <1>2, NormalForm
<1> HIDE DEF q, n
<1>6. q.source = n.source /\ q.destinations = n.destinations
  BY <1>3, <1>4, <1>5 DEF NormalFormOf
<1>7. /\ q.destination_url = n.destination_url /\ q.protocol = n.protocol
      /\ q.mode = n.mode /\ q.streamid = n.streamid
  BY <1>3, <1>5, <1>6 DEF NormalFormOf
<1>8. q.url = n.url /\ q.ip = n.ip /\ q.port = n.port
  BY <1>3, <1>5, <1>6 DEF NormalFormOf
<1>9. \A f \in {"preview", "full", "backup", "local", "bindings", "target", "ha", "failover"} :
          q[f] = r[f] /\ n[f] = p[f]
  BY <1>5 DEF NormalFormOf, But, Field
<1>10. q.low = r.low
  BY <1>5 DEF NormalFormOf, But, Field
<1>11. But(n, q, {"low"})
  BY <1>2, <1>6, <1>7, <1>8, <1>9 DEF But, Field
<1> QED  BY <1>10, <1>11 DEF q, n, r

-----------------------------------------------------------------------------
(* Normalisation is idempotent.                                            *)

LEMMA Singleton == ASSUME NEW x PROVE <<x>> # <<>>
OBVIOUS

LEMMA NormalizeTwice ==
    ASSUME NEW p, NEW n, NEW m, NormalFormOf(n, p), NormalFormOf(m, n), n.source # None
    PROVE  m = n
<1>1. m.source = n.source
  BY DEF NormalFormOf, Or
<1>2. /\ m.protocol = n.protocol /\ m.mode = n.mode /\ m.streamid = n.streamid
      /\ m.url = n.url /\ m.ip = n.ip /\ m.port = n.port
  BY <1>1 DEF NormalFormOf, Or
<1>3. m.destinations = n.destinations
  <2>1. CASE n.destinations # <<>>
    BY <2>1 DEF NormalFormOf
  <2>2. CASE n.destinations = <<>>
    <3>1. p.destinations = <<>> /\ p.destination_url = None
      BY <2>2, Singleton DEF NormalFormOf
    <3>2. Enabled(n.destinations) = {}
      BY <2>2 DEF Enabled
    <3>3. n.destination_url = None
      BY <3>1, <3>2 DEF NormalFormOf
    <3> QED  BY <3>3 DEF NormalFormOf
  <2> QED  BY <2>1, <2>2
<1>4. m.destination_url = n.destination_url
  BY <1>3 DEF NormalFormOf
<1>5. \A f \in Field : m[f] = n[f]
  BY <1>1, <1>2, <1>3, <1>4 DEF NormalFormOf, But, Field
<1>6. m = [f \in Field |-> m[f]] /\ n = [f \in Field |-> n[f]]
  BY DEF NormalFormOf, IsRecord
<1> HIDE DEF Field
<1> QED  BY <1>5, <1>6

LEMMA Idempotent ==
    ASSUME NEW p, IsServiceConfig(p)
    PROVE  Normalize(Normalize(p)) = Normalize(p)
<1> DEFINE n == Normalize(p)
           m == Normalize(n)
<1>1. NormalFormOf(n, p)
  BY NormalForm DEF IsServiceConfig, IsRecord
<1>2. n.source # None
  BY NormalSource
<1> HIDE DEF n
<1>3. NormalFormOf(m, n)
  BY <1>1, NormalForm DEF NormalFormOf
<1> HIDE DEF m
<1> QED  BY <1>1, <1>2, <1>3, NormalizeTwice DEF n, m

-----------------------------------------------------------------------------
(* A row and its normal form are one route to the policy.                  *)

Alike(p, q) ==
    /\ IsUdpMulticast(p) /\ IsUdpMulticast(q)
    /\ SourceEndpoint(q) = SourceEndpoint(p)
    /\ q.bindings = p.bindings /\ q.local = p.local
    /\ q.target = p.target /\ q.ha = p.ha /\ q.failover = p.failover

LEMMA AlikeAgree ==
    ASSUME NEW p, NEW q, Alike(p, q)
    PROVE  /\ EligibleRoles(q) = EligibleRoles(p) /\ BindKeys(q) = BindKeys(p)
           /\ \A role : /\ ResolveMulticastBind(q, role) = ResolveMulticastBind(p, role)
                        /\ Preflight(q, role) => Preflight(p, role)
<1>1. EligibleRoles(q) = EligibleRoles(p)
  BY DEF Alike, EligibleRoles
<1>2. \A role : ResolveMulticastBind(q, role) = ResolveMulticastBind(p, role)
  BY DEF Alike, ResolveMulticastBind
<1>3. BindKeys(q) = BindKeys(p)
  BY <1>1, <1>2 DEF Alike, BindKeys
<1>4. \A role : Preflight(q, role) => Preflight(p, role)
  BY <1>2 DEF Alike, Preflight
<1> QED  BY <1>1, <1>2, <1>3, <1>4

\* Who runs a service by the worker's rule is among those the policy asked about.
LEMMA RunnersAreEligible ==
    ASSUME NEW p, NEW role \in Production, RunsOn(p, role)
    PROVE  role \in EligibleRoles(p)
<1>1. role # None
  BY NoneAssumption
<1> QED  BY <1>1 DEF RunsOn, EligibleRoles, Production

LEMMA StoredRoute ==
    ASSUME NEW p, IsServiceConfig(p), IsUdpMulticast(Normalize(Parsed(p)))
    PROVE  /\ Normalize(Parsed(p)).protocol = "udp"
           /\ Alike(Normalize(Parsed(p)), Normalize(p))
<1> DEFINE r == Parsed(p)
           q == Normalize(r)
           n == Normalize(p)
<1>1. But(n, q, {"low"})
  BY ParsedNormal
<1>2. IsServiceConfig(r) /\ IsRecord(r)
  BY ParsedEffect
<1> HIDE DEF r
<1>3. q.source # None
  BY <1>2, NormalSource
<1>4. NormalFormOf(q, r)
  BY <1>2, NormalForm
<1>5. IsUdpMulticast(q)
  BY DEF r
<1> HIDE DEF q, n
<1>6. /\ n.source = q.source /\ n.ip = q.ip /\ n.port = q.port /\ n.bindings = q.bindings
      /\ n.local = q.local /\ n.target = q.target /\ n.ha = q.ha /\ n.failover = q.failover
  BY <1>1 DEF But, Field
<1>7. q.protocol = "udp" /\ IsUdpMulticast(n)
  BY <1>3, <1>4, <1>5, <1>6 DEF IsUdpMulticast, NormalFormOf
<1>8. SourceEndpoint(n) = SourceEndpoint(q)
  BY <1>6 DEF SourceEndpoint
<1> QED  BY <1>5, <1>6, <1>7, <1>8 DEF Alike, q, n, r

\* A config without a structured source and its normal form.
LEMMA LegacyFields ==
    ASSUME NEW p, IsServiceConfig(p), p.source = None
    PROVE  LET n == Normalize(p)
           IN  /\ n.protocol = p.protocol /\ n.mode = p.mode /\ n.streamid = p.streamid
               /\ n.url = p.url /\ n.ip = p.ip
               /\ p.protocol # "hls" => n.port = p.port
               /\ n.backup = p.backup /\ n.bindings = p.bindings /\ n.local = p.local
               /\ n.target = p.target /\ n.ha = p.ha /\ n.failover = p.failover
               /\ n.source = SourceFromFlat(p) /\ n.source # None
<1> DEFINE n == Normalize(p)
           s == SourceFromFlat(p)
<1>1. NormalFormOf(n, p)
  BY NormalForm DEF IsServiceConfig, IsRecord
<1>2. n.source # None
  BY NormalSource
<1>3. /\ s.protocol = p.protocol
      /\ p.protocol = "hls" => s.endpoint = None /\ s.mode = None /\ s.url = p.url
                               /\ s.streamid = None
      /\ p.protocol # "hls" =>
             /\ s.endpoint = [address |-> p.ip, port |-> p.port, bind |-> None, interface |-> None]
             /\ s.endpoint \in RouteEndpoint
             /\ s.mode = p.mode
             /\ s.streamid = IF p.protocol = "srt" THEN p.streamid ELSE None
  BY FlatSource
<1> HIDE DEF n, s
<1>4. n.source = s
  BY <1>1 DEF NormalFormOf, Or, s
<1>5. /\ n.backup = p.backup /\ n.bindings = p.bindings /\ n.local = p.local
      /\ n.target = p.target /\ n.ha = p.ha /\ n.failover = p.failover
  BY <1>1 DEF NormalFormOf, But, Field
<1>6. n.protocol = p.protocol /\ n.mode = p.mode /\ n.streamid = p.streamid
  BY <1>1, <1>3, <1>4 DEF NormalFormOf, Or
<1>7. CASE p.protocol = "hls"
  <2>1. n.url = p.url /\ n.ip = p.ip
    BY <1>1, <1>3, <1>4, <1>7 DEF NormalFormOf, Or
  <2> QED  BY <1>2, <1>4, <1>5, <1>6, <1>7, <2>1 DEF n, s
<1>8. CASE p.protocol # "hls"
  <2>1. s.endpoint # None /\ s.endpoint.address = p.ip /\ s.endpoint.port = p.port
    BY <1>3, <1>8, Absent
  <2>2. n.url = p.url /\ n.ip = p.ip /\ n.port = p.port
    BY <1>1, <1>3, <1>4, <1>8, <2>1 DEF NormalFormOf, Or
  <2> QED  BY <1>2, <1>4, <1>5, <1>6, <2>2 DEF n, s
<1> QED  BY <1>7, <1>8

LEMMA EndpointFlat ==
    ASSUME NEW p, p.source = None \/ p.source.endpoint = None
    PROVE  SourceEndpoint(p) =
               [address |-> p.ip, port |-> p.port, bind |-> None, interface |-> None]
<1> DEFINE e == IF p.source # None THEN p.source.endpoint ELSE None
           y == [address |-> p.ip, port |-> p.port, bind |-> None, interface |-> None]
           z == [e EXCEPT !.port = Or(e.port, p.port)]
<1>1. SourceEndpoint(p) = IF e = None THEN y ELSE z
  BY DEF SourceEndpoint
<1>2. e = None
  OBVIOUS
<1> HIDE DEF e, z, y
<1>3. SourceEndpoint(p) = y
  BY <1>1, <1>2
<1> QED  BY <1>3 DEF y
LEMMA EndpointGiven ==
    ASSUME NEW p, p.source # None, p.source.endpoint # None
    PROVE  SourceEndpoint(p) =
               [p.source.endpoint EXCEPT !.port = Or(p.source.endpoint.port, p.port)]
BY DEF SourceEndpoint

LEMMA LegacyEndpoint ==
    ASSUME NEW p, IsServiceConfig(p), p.source = None
    PROVE  LET n == Normalize(p)
           IN  /\ IsUdpMulticast(n) <=> IsUdpMulticast(p)
               /\ p.protocol # "hls" => SourceEndpoint(n) = SourceEndpoint(p)
               /\ SourceEndpoint(n).address = SourceEndpoint(p).address
<1> DEFINE n == Normalize(p)
           s == SourceFromFlat(p)
           e == [address |-> p.ip, port |-> p.port, bind |-> None, interface |-> None]
<1>1. /\ n.protocol = p.protocol /\ n.ip = p.ip /\ n.source = s /\ n.source # None
      /\ p.protocol # "hls" => n.port = p.port
  BY LegacyFields
<1>2. /\ s.protocol = p.protocol
      /\ p.protocol = "hls" => s.endpoint = None
      /\ p.protocol # "hls" => s.endpoint = e /\ s.endpoint \in RouteEndpoint
      /\ p.protocol = "udp" => (s.type = "multicast" <=> p.ip \in Group)
  BY FlatSource
<1> HIDE DEF n, s
<1>3. IsUdpMulticast(n) <=> IsUdpMulticast(p)
  BY <1>1, <1>2 DEF IsUdpMulticast
<1>4. SourceEndpoint(p) = e
  BY EndpointFlat
<1> DEFINE flat == [address |-> n.ip, port |-> n.port, bind |-> None, interface |-> None]
           given == [n.source.endpoint EXCEPT !.port = Or(n.source.endpoint.port, n.port)]
<1>5. n.source.endpoint = None => SourceEndpoint(n) = flat
  BY EndpointFlat
<1>6. n.source.endpoint # None => SourceEndpoint(n) = given
  BY <1>1, EndpointGiven
<1>7. CASE p.protocol = "hls"
  <2>1. n.source.endpoint = None
    BY <1>1, <1>2, <1>7
  <2>2. SourceEndpoint(n).address = SourceEndpoint(p).address
    BY <1>1, <1>4, <1>5, <2>1
  <2> QED  BY <1>3, <1>7, <2>2 DEF n
<1>8. CASE p.protocol # "hls"
  <2>1. n.source.endpoint = e /\ e \in RouteEndpoint /\ n.port = p.port
    BY <1>1, <1>2, <1>8
  <2>2. e # None
    BY <2>1, Absent
  <2>3. given = [e EXCEPT !.port = Or(e.port, p.port)]
    BY <2>1
  <2>4. [e EXCEPT !.port = Or(e.port, p.port)] = e
    BY DEF Or
  <2>5. SourceEndpoint(n) = e
    BY <1>6, <2>1, <2>2, <2>3, <2>4
  <2> QED  BY <1>3, <1>4, <2>5 DEF n
<1> QED  BY <1>7, <1>8

LEMMA LegacyRoute ==
    ASSUME NEW p, IsServiceConfig(p), p.source = None, IsUdpMulticast(p)
    PROVE  p.protocol = "udp" /\ Alike(p, Normalize(p))
<1> DEFINE n == Normalize(p)
<1>1. p.protocol = "udp"
  BY DEF IsUdpMulticast
<1>2. IsUdpMulticast(n) /\ SourceEndpoint(n) = SourceEndpoint(p)
  BY <1>1, LegacyEndpoint
<1>3. /\ n.bindings = p.bindings /\ n.local = p.local
      /\ n.target = p.target /\ n.ha = p.ha /\ n.failover = p.failover
  BY LegacyFields
<1> HIDE DEF n
<1> QED  BY <1>1, <1>2, <1>3 DEF Alike, n

-----------------------------------------------------------------------------
(* The invariant: where a row comes from, and what was asked before it was *)
(* stored or started.                                                      *)

Inv ==
    /\ IsServiceConfig(request) /\ ValidRequest(request)
    /\ row # None => status \in {"stored", "legacy"}
    /\ status \in {"stored", "legacy"} => Admitted(request)
    /\ status = "stored" => row = Normalize(Parsed(request))
    /\ status = "legacy" =>
           row = request /\ request.source = None /\ request.destinations = <<>>
    /\ ffmpeg = "started" => row # None /\ \E free \in {0, MinFree} : StorageAllows(row, free)

LEMMA InitInv == Init => Inv
<1> SUFFICES ASSUME Init PROVE Inv
  OBVIOUS
<1>1. IsServiceConfig(request) /\ ValidRequest(request)
  BY RequestsAssumption DEF Init
<1> QED  BY <1>1 DEF Init, Inv

LEMMA NextInv == Inv /\ [Next]_vars => Inv'
<1> SUFFICES ASSUME Inv, [Next]_vars PROVE Inv'
  OBVIOUS
<1> USE DEF Inv
<1>1. CASE Store
  BY <1>1 DEF Store
<1>2. CASE Refuse
  BY <1>2 DEF Refuse
<1>3. CASE StartLegacyRow
  BY <1>3 DEF StartLegacyRow
<1>4. CASE Start
  BY <1>4 DEF Start
<1>5. CASE UNCHANGED vars
  BY <1>5 DEF vars
<1> QED  BY <1>1, <1>2, <1>3, <1>4, <1>5 DEF Next

LEMMA AlwaysInv == Spec => []Inv
BY InitInv, NextInv, PTL DEF Spec

-----------------------------------------------------------------------------

\* A row whose source is UDP multicast is the route that the policy admitted,
\* and so is its normal form.
LEMMA RowRoute ==
    ASSUME Inv, row # None, IsUdpMulticast(row)
    PROVE  /\ row.protocol = "udp" /\ Policy(Normalize(request))
           /\ Alike(row, Normalize(request)) /\ Alike(row, Normalize(row))
<1>1. Policy(Normalize(request))
  BY DEF Inv, Admitted
<1>2. CASE status = "stored"
  <2>1. row = Normalize(Parsed(request)) /\ IsServiceConfig(request)
    BY <1>2 DEF Inv
  <2>2. row.protocol = "udp" /\ Alike(row, Normalize(request))
    BY <2>1, StoredRoute
  <2>3. Normalize(row) = row
    BY <2>1, ParsedEffect, Idempotent
  <2>4. Alike(row, row)
    BY DEF Alike
  <2> QED  BY <1>1, <2>2, <2>3, <2>4
<1>3. CASE status = "legacy"
  <2>1. row = request /\ IsServiceConfig(request) /\ request.source = None
    BY <1>3 DEF Inv
  <2> QED  BY <1>1, <2>1, LegacyRoute
<1> QED  BY <1>2, <1>3 DEF Inv

\* What is stored is a fixed point of normalisation: the start of a service and
\* the startup of the API, which normalise the row again, see the config that was
\* admitted (route_normalizer.py:193-203, main.py:270, 445).
THEOREM StoredRowsAreStable == Spec => []StoredIsStable
<1>1. Inv => StoredIsStable
  BY ParsedEffect, Idempotent DEF Inv, StoredIsStable
<1> QED  BY <1>1, AlwaysInv, PTL

\* Whatever the roles, interfaces and bindings, no production worker that is to
\* run an admitted service refuses it in its preflight (main.py:168-177,
\* worker.py:31-34, 309-310).
THEOREM PreflightAccepts == Spec => []WorkerAccepts
<1>1. ASSUME Inv, row # None, IsUdpMulticast(row), NEW role \in Production, RunsOn(row, role)
      PROVE  Preflight(row, role)
  <2>1. Policy(Normalize(request)) /\ Alike(row, Normalize(request))
    BY <1>1, RowRoute
  <2>2. role \in EligibleRoles(Normalize(request))
    BY <1>1, <2>1, RunnersAreEligible, AlikeAgree
  <2>3. Preflight(Normalize(request), role)
    BY <2>1, <2>2 DEF Policy, Alike
  <2> QED  BY <2>1, <2>3, AlikeAgree
<1>2. Inv => WorkerAccepts
  BY <1>1 DEF WorkerAccepts
<1> QED  BY <1>2, AlwaysInv, PTL

LEMMA UdpInput ==
    ASSUME NEW p, NEW role, NEW use_backup \in BOOLEAN, p.protocol = "udp", IsUdpMulticast(p)
    PROVE  LET url == InputUrl(p, role, use_backup)
           IN  /\ url.localaddr = ResolveMulticastBind(p, role)
               /\ url.port = Or(SourceEndpoint(p).port, p.port)
<1>1. ResolveInputBind(p, role) = ResolveMulticastBind(p, role)
  BY DEF ResolveInputBind
<1> QED  BY <1>1 DEF InputUrl

\* The (bind IP, port) that FFmpeg opens on a production worker, for the main or
\* the alternate input, is one of those that admission compared with other
\* services (multicast_policy.py:128-138, ffmpeg_builder.py:91-98, 149-155).
THEOREM OpenedBindsAreClaimed == Spec => []BindIsClaimed
<1>1. ASSUME Inv, row # None, IsUdpMulticast(row), NEW role \in Production,
             NEW use_backup \in BOOLEAN, RunsOn(row, role)
      PROVE  LET url == InputUrl(row, role, use_backup)
             IN  <<url.localaddr, url.port>> \in BindKeys(Normalize(row))
  <2> DEFINE port == SourceEndpoint(row).port
             ip == ResolveMulticastBind(row, role)
             url == InputUrl(row, role, use_backup)
  <2>1. /\ row.protocol = "udp" /\ Policy(Normalize(request))
        /\ Alike(row, Normalize(request)) /\ Alike(row, Normalize(row))
    BY <1>1, RowRoute
  <2>2. role \in EligibleRoles(row)
    BY <1>1, RunnersAreEligible
  <2>3. Preflight(Normalize(request), role)
    BY <2>1, <2>2, AlikeAgree DEF Policy, Alike
  <2>4. port # None /\ ip # None
    BY <2>1, <2>3, AlikeAgree DEF Preflight
  <2>5. url.localaddr = ip /\ url.port = Or(port, row.port)
    BY <1>1, <2>1, UdpInput
  <2>6. url.port = port
    BY <2>4, <2>5 DEF Or
  <2> HIDE DEF url
  <2>7. <<ip, port>> \in BindKeys(row)
    BY <1>1, <2>2, <2>4 DEF BindKeys
  <2>8. BindKeys(Normalize(row)) = BindKeys(row)
    BY <2>1, AlikeAgree
  <2>9. <<url.localaddr, url.port>> \in BindKeys(Normalize(row))
    BY <2>5, <2>6, <2>7, <2>8
  <2> QED  BY <2>9 DEF url
<1>2. Inv => BindIsClaimed
  BY <1>1 DEF BindIsClaimed
<1> QED  BY <1>2, AlwaysInv, PTL

-----------------------------------------------------------------------------
(* The source: FFmpeg's input URL.                                         *)

\* The port of the input, by protocol.
LEMMA InputPort ==
    ASSUME NEW p, NEW role, NEW use_backup \in BOOLEAN,
           p.protocol \in {"srt", "rtmp", "udp", "rist"}, p.mode \in SourceMode
    PROVE  InputUrl(p, role, use_backup).port =
               IF p.protocol = "udp" THEN Or(SourceEndpoint(p).port, p.port) ELSE p.port
<1> DEFINE url == InputUrl(p, role, use_backup)
           port == SourceEndpoint(p).port
<1>1. CASE p.protocol = "udp"
  <2>1. url.port = Or(port, p.port)
    BY <1>1 DEF InputUrl
  <2> HIDE DEF url
  <2>2. url.port = IF p.protocol = "udp" THEN Or(port, p.port) ELSE p.port
    BY <1>1, <2>1
  <2> QED  BY <2>2 DEF url
<1>2. CASE p.protocol \in {"rist", "rtmp"}
  <2>1. url.port = p.port
    BY <1>2 DEF InputUrl
  <2> HIDE DEF url
  <2>2. url.port = IF p.protocol = "udp" THEN Or(port, p.port) ELSE p.port
    BY <1>2, <2>1
  <2> QED  BY <2>2 DEF url
<1>3. CASE p.protocol = "srt"
  <2>1. p.mode \in {"listener", "caller"}
    BY DEF SourceMode
  <2>2. url.port = p.port
    <3>1. CASE p.mode = "listener"
      BY <1>3, <3>1 DEF InputUrl
    <3>2. CASE p.mode = "caller"
      BY <1>3, <3>2 DEF InputUrl
    <3> QED BY <2>1, <3>1, <3>2
  <2> HIDE DEF url
  <2>3. url.port = IF p.protocol = "udp" THEN Or(port, p.port) ELSE p.port
    BY <1>3, <2>2
  <2> QED  BY <2>3 DEF url
<1> QED  BY <1>1, <1>2, <1>3

LEMMA StructuredPort ==
    ASSUME NEW p, IsServiceConfig(p), ValidSource(p), p.source # None,
           p.source.protocol # "hls", p.source.endpoint # None, NEW role
    PROVE  InputUrl(Normalize(Parsed(p)), role, FALSE).port = p.source.endpoint.port
<1> DEFINE r == Parsed(p)
           n == Normalize(r)
           port == p.source.endpoint.port
           url == InputUrl(n, role, FALSE)
<1>1. IsServiceConfig(r) /\ IsRecord(r) /\ r.source = p.source /\ r.mode = p.mode
  BY ParsedEffect DEF But, Field
<1>2. port # None
  BY DEF ValidSource
<1> HIDE DEF r
<1>3. NormalFormOf(n, r)
  BY <1>1, NormalForm
<1>4. p.source \in SourceConfig /\ p.mode \in SourceMode
  BY DEF IsServiceConfig, Maybe
<1> HIDE DEF n
<1>5. n.source = p.source
  BY <1>1, <1>3 DEF NormalFormOf, Or
<1>6. n.protocol = p.source.protocol /\ n.mode = Or(p.source.mode, p.mode) /\ n.port = port
  BY <1>1, <1>2, <1>3, <1>5 DEF NormalFormOf, Or
<1>7. p.source.protocol \in {"srt", "rtmp", "udp", "rist"} /\ p.source.mode \in Maybe(SourceMode)
  BY <1>4 DEF SourceConfig
<1>8. n.mode \in SourceMode
  BY <1>4, <1>6, <1>7 DEF Or, Maybe
<1>9. SourceEndpoint(n) = [p.source.endpoint EXCEPT !.port = Or(port, n.port)]
  BY <1>5, EndpointGiven
<1>10. p.source.endpoint \in RouteEndpoint
  BY <1>4 DEF SourceConfig, Maybe
<1>11. SourceEndpoint(n).port = port
  BY <1>2, <1>9, <1>10 DEF Or, RouteEndpoint
<1>12. url.port = IF n.protocol = "udp" THEN Or(SourceEndpoint(n).port, n.port) ELSE n.port
  <2>1. n.protocol \in {"srt", "rtmp", "udp", "rist"}
    BY <1>6, <1>7
  <2> QED  BY <1>8, <2>1, InputPort
<1> HIDE DEF url
<1>13. url.port = port
  BY <1>6, <1>11, <1>12 DEF Or
<1> QED  BY <1>13 DEF n, r, url

-----------------------------------------------------------------------------
(* The destination.                                                        *)

LEMMA OneEnabled ==
    ASSUME NEW p, Normalizable(p), NEW i \in DOMAIN p.destinations,
           p.destinations[i].enabled
    PROVE  /\ Enabled(p.destinations) # {} /\ p.destinations # <<>>
           /\ FirstEnabled(p.destinations) = p.destinations[i]
<1>1. i \in Enabled(p.destinations)
  BY DEF Enabled
<1>2. (CHOOSE j \in Enabled(p.destinations) : TRUE) = i
  BY <1>1 DEF Normalizable
<1>3. p.destinations # <<>>
  <2>1. SUFFICES ASSUME p.destinations = <<>> PROVE FALSE
    OBVIOUS
  <2> QED  BY <2>1
<1> QED  BY <1>1, <1>2, <1>3 DEF FirstEnabled

\* What a worker sends to, with or without a bind of its own, goes where the URL
\* goes.
LEMMA BoundUrl ==
    ASSUME NEW p, NEW role, p.destination_url \in DestinationUrl
    PROVE  LET url == OutputUrl(p, role)
               to == p.destination_url
           IN  /\ url.scheme = to.scheme /\ url.address = to.address
               /\ url.port = to.port /\ url.streamid = to.streamid
<1> DEFINE to == p.destination_url
           bind == ResolveOutputBind(p, role)
           url == OutputUrl(p, role)
<1>1. url = to \/ url = [to EXCEPT !.local = bind]
  BY DEF OutputUrl
<1> HIDE DEF url, bind
<1>2. CASE url = to
  BY <1>2 DEF url
<1>3. CASE url = [to EXCEPT !.local = bind]
  <2>1. /\ url.scheme = to.scheme /\ url.address = to.address
        /\ url.port = to.port /\ url.streamid = to.streamid
    BY <1>3 DEF DestinationUrl
  <2> QED  BY <2>1 DEF url
<1> QED  BY <1>1, <1>2, <1>3

LEMMA LegacyUrlType ==
    ASSUME NEW d \in DestinationConfig, HasTarget(d)
    PROVE  /\ LegacyUrl(d) \in DestinationUrl
           /\ d.url = None =>
                  LegacyUrl(d) = [scheme |-> d.protocol, address |-> d.endpoint.address,
                                  port |-> d.endpoint.port,
                                  streamid |-> IF d.protocol = "srt" THEN d.streamid ELSE None,
                                  local |-> None]
<1> DEFINE name == IF d.protocol = "srt" THEN d.streamid ELSE None
           url == [scheme |-> d.protocol, address |-> d.endpoint.address,
                   port |-> d.endpoint.port, streamid |-> name, local |-> None]
<1>1. CASE d.url # None
  BY <1>1 DEF LegacyUrl, DestinationConfig, Maybe
<1>2. CASE d.url = None
  <2>1. LegacyUrl(d) = url
    BY <1>2 DEF LegacyUrl
  <2>2. d.endpoint \in Target /\ d.protocol \in {"srt", "udp", "rtmp", "rtmps", "rist"}
    BY <1>2 DEF HasTarget, DestinationConfig, Maybe
  <2>3. name \in Maybe(Text)
    BY DEF DestinationConfig, Maybe
  <2>4. Port \subseteq UrlPort
    BY DEF UrlPort
  <2>5. d.endpoint.address \in Maybe(Text) /\ d.endpoint.port \in Maybe(UrlPort)
    BY <2>2, <2>4 DEF Target, Maybe
  <2>6. None \in Maybe(Text)
    BY DEF Maybe
  <2> HIDE DEF name
  <2>7. url \in DestinationUrl
    BY <2>2, <2>3, <2>5, <2>6 DEF DestinationUrl
  <2> QED  BY <1>2, <2>1, <2>7 DEF name
<1> QED  BY <1>1, <1>2

LEMMA StructuredTarget ==
    ASSUME NEW p, IsServiceConfig(p), ValidRequest(p), Normalizable(p), NEW role,
           NEW i \in DOMAIN p.destinations, p.destinations[i].enabled,
           p.destinations[i].url = None, p.destinations[i].protocol \in {"srt", "udp", "rist"}
    PROVE  LET d == p.destinations[i]
               sent == DestinationFromFlat(OutputUrl(Normalize(Parsed(p)), role))
           IN  /\ sent.endpoint = d.endpoint
               /\ d.protocol = "srt" => sent.streamid = d.streamid
<1> DEFINE r == Parsed(p)
           n == Normalize(r)
           d == p.destinations[i]
           url == OutputUrl(n, role)
           sent == DestinationFromFlat(url)
           name == IF d.protocol = "srt" THEN d.streamid ELSE None
<1>1. IsRecord(r) /\ r.destinations = p.destinations
  BY ParsedEffect DEF But, Field
<1>2. d \in DestinationConfig /\ HasTarget(d)
  BY DEF IsServiceConfig, ValidRequest
<1>3. /\ Enabled(p.destinations) # {} /\ p.destinations # <<>>
      /\ FirstEnabled(p.destinations) = d
  BY OneEnabled
<1> HIDE DEF r, d
<1>4. NormalFormOf(n, r)
  BY <1>1, NormalForm
<1> HIDE DEF n
<1>5. n.destination_url = LegacyUrl(d)
  BY <1>1, <1>3, <1>4 DEF NormalFormOf
<1>6. d.url = None /\ d.protocol \in {"srt", "udp", "rist"}
  BY DEF d
<1>7. /\ LegacyUrl(d) \in DestinationUrl
      /\ LegacyUrl(d) = [scheme |-> d.protocol, address |-> d.endpoint.address,
                         port |-> d.endpoint.port, streamid |-> name, local |-> None]
  BY <1>2, <1>6, LegacyUrlType
<1>8. /\ url.scheme = n.destination_url.scheme /\ url.address = n.destination_url.address
      /\ url.port = n.destination_url.port /\ url.streamid = n.destination_url.streamid
  BY <1>5, <1>7, BoundUrl
<1>9. d.endpoint \in Target
  BY <1>2, <1>6 DEF HasTarget, DestinationConfig, Maybe
<1> HIDE DEF url, name
<1>10. /\ url.scheme = d.protocol /\ url.address = d.endpoint.address
       /\ url.port = d.endpoint.port /\ url.streamid = name
  BY <1>5, <1>7, <1>8
<1>11. d.endpoint.address # None
  BY <1>9, Absent DEF Target
<1>12. sent.endpoint = [address |-> d.endpoint.address, port |-> d.endpoint.port]
  BY <1>6, <1>10, <1>11 DEF DestinationFromFlat, Or
<1>13. sent.streamid = IF d.protocol = "srt" THEN name ELSE None
  BY <1>10 DEF DestinationFromFlat
<1>14. [address |-> d.endpoint.address, port |-> d.endpoint.port] = d.endpoint
  BY <1>9 DEF Target
<1>15. /\ sent.endpoint = d.endpoint
       /\ d.protocol = "srt" => sent.streamid = d.streamid
  BY <1>12, <1>13, <1>14 DEF name
<1> QED  BY <1>15 DEF d, n, r, url

\* Whichever form the builder reads, FFmpeg listens on or calls the port of the
\* structured source, and sends to the enabled structured destination with its
\* Stream ID, also when its output is bound (route_normalizer.py:159-190,
\* ffmpeg_builder.py:111-170).
THEOREM StructuredRoutesRun == Spec => []RunsWhatWasAsked
<1>1. ASSUME Inv, status = "stored", NEW role
      PROVE  /\ request.source # None /\ row.protocol # "hls" /\ request.source.endpoint # None
                    => InputUrl(row, role, FALSE).port = request.source.endpoint.port
             /\ \A i \in DOMAIN request.destinations :
                    LET d == request.destinations[i]
                        sent == DestinationFromFlat(OutputUrl(row, role))
                    IN  d.enabled /\ d.url = None /\ d.protocol \in {"srt", "udp", "rist"} =>
                            /\ sent.endpoint = d.endpoint
                            /\ d.protocol = "srt" => sent.streamid = d.streamid
  <2>1. /\ IsServiceConfig(request) /\ ValidRequest(request) /\ Normalizable(request)
        /\ row = Normalize(Parsed(request))
    BY <1>1 DEF Inv, Admitted
  <2>2. ASSUME request.source # None, row.protocol # "hls", request.source.endpoint # None
        PROVE  InputUrl(row, role, FALSE).port = request.source.endpoint.port
    <3> DEFINE r == Parsed(request)
    <3>1. IsRecord(r) /\ r.source = request.source
      BY <2>1, ParsedEffect DEF But, Field
    <3>2. NormalFormOf(row, r)
      BY <2>1, <3>1, NormalForm
    <3> HIDE DEF r
    <3>3. request.source.protocol # "hls"
      BY <2>2, <3>1, <3>2 DEF NormalFormOf, Or
    <3> QED  BY <2>1, <2>2, <3>3, StructuredPort DEF ValidRequest
  <2>3. ASSUME NEW i \in DOMAIN request.destinations, request.destinations[i].enabled,
               request.destinations[i].url = None,
               request.destinations[i].protocol \in {"srt", "udp", "rist"}
        PROVE  LET d == request.destinations[i]
                   sent == DestinationFromFlat(OutputUrl(row, role))
               IN  /\ sent.endpoint = d.endpoint
                   /\ d.protocol = "srt" => sent.streamid = d.streamid
    BY <2>1, <2>3, StructuredTarget
  <2> QED  BY <2>2, <2>3
<1>2. Inv => RunsWhatWasAsked
  BY <1>1 DEF RunsWhatWasAsked
<1> QED  BY <1>2, AlwaysInv, PTL

-----------------------------------------------------------------------------
(* A row without structured columns.                                       *)

LEMMA LegacyBind ==
    ASSUME NEW p, IsServiceConfig(p), p.source = None, p.protocol # "hls", NEW role
    PROVE  ResolveInputBind(Normalize(p), role) = ResolveInputBind(p, role)
<1> DEFINE n == Normalize(p)
<1>1. (IsUdpMulticast(n) <=> IsUdpMulticast(p)) /\ SourceEndpoint(n) = SourceEndpoint(p)
  BY LegacyEndpoint
<1>2. n.bindings = p.bindings /\ n.local = p.local
  BY LegacyFields
<1> HIDE DEF n
<1>3. /\ ResolveMulticastBind(n, role) = ResolveMulticastBind(p, role)
      /\ BindingOf(n, role) = BindingOf(p, role)
  BY <1>1, <1>2 DEF ResolveMulticastBind, BindingOf
<1>4. ResolveInputBind(n, role) = ResolveInputBind(p, role)
  BY <1>1, <1>2, <1>3 DEF ResolveInputBind
<1> QED  BY <1>4 DEF n

LEMMA LegacyInput ==
    ASSUME NEW p, IsServiceConfig(p), p.source = None, NEW role, NEW use_backup \in BOOLEAN
    PROVE  InputUrl(p, role, use_backup) = InputUrl(Normalize(p), role, use_backup)
<1> DEFINE n == Normalize(p)
<1>1. /\ n.protocol = p.protocol /\ n.mode = p.mode /\ n.streamid = p.streamid
      /\ n.url = p.url /\ n.backup = p.backup
      /\ p.protocol # "hls" => n.port = p.port
  BY LegacyFields
<1>2. /\ IsUdpMulticast(n) <=> IsUdpMulticast(p)
      /\ p.protocol # "hls" => SourceEndpoint(n) = SourceEndpoint(p)
      /\ SourceEndpoint(n).address = SourceEndpoint(p).address
  BY LegacyEndpoint
<1>3. p.protocol # "hls" => ResolveInputBind(n, role) = ResolveInputBind(p, role)
  BY LegacyBind
<1>4. p.protocol \in {"srt", "rtmp", "udp", "rist", "hls"} /\ p.mode \in {"listener", "caller"}
  BY DEF IsServiceConfig, SourceMode
<1> HIDE DEF n
<1>5. CASE p.protocol = "hls"
  <2>1. InputUrl(p, role, use_backup) = InputUrl(n, role, use_backup)
    BY <1>1, <1>2, <1>5 DEF InputUrl
  <2> QED  BY <2>1 DEF n
<1>6. CASE p.protocol = "udp"
  <2>1. InputUrl(p, role, use_backup) = InputUrl(n, role, use_backup)
    BY <1>1, <1>2, <1>3, <1>6 DEF InputUrl
  <2> QED  BY <2>1 DEF n
<1>7. CASE p.protocol \in {"rist", "rtmp"}
  <2>1. InputUrl(p, role, use_backup) = InputUrl(n, role, use_backup)
    BY <1>1, <1>2, <1>3, <1>7 DEF InputUrl
  <2> QED  BY <2>1 DEF n
<1>8. CASE p.protocol = "srt" /\ p.mode = "listener"
  <2>1. InputUrl(p, role, use_backup) = InputUrl(n, role, use_backup)
    BY <1>1, <1>2, <1>3, <1>8 DEF InputUrl
  <2> QED  BY <2>1 DEF n
<1>9. CASE p.protocol = "srt" /\ p.mode = "caller"
  <2>1. InputUrl(p, role, use_backup) = InputUrl(n, role, use_backup)
    BY <1>1, <1>2, <1>3, <1>9 DEF InputUrl
  <2> QED  BY <2>1 DEF n
<1> QED  BY <1>4, <1>5, <1>6, <1>7, <1>8, <1>9

\* A destination derived from the flat URL derives that URL.
LEMMA FlatDestination ==
    ASSUME NEW url, url # None
    PROVE  LET ds == <<DestinationFromFlat(url)>>
           IN  Enabled(ds) # {} /\ LegacyUrl(FirstEnabled(ds)) = url
<1> DEFINE d == DestinationFromFlat(url)
           ds == <<d>>
<1>1. d.enabled = TRUE /\ d.url = url
  BY DEF DestinationFromFlat
<1> HIDE DEF d
<1>2. DOMAIN ds = {1} /\ ds[1] = d
  OBVIOUS
<1>3. Enabled(ds) = {1}
  BY <1>1, <1>2 DEF Enabled
<1>4. FirstEnabled(ds) = d
  BY <1>2, <1>3 DEF FirstEnabled
<1>5. LegacyUrl(d) = url
  BY <1>1 DEF LegacyUrl
<1> HIDE DEF ds
<1> QED  BY <1>3, <1>4, <1>5 DEF ds, d

LEMMA LegacyDestination ==
    ASSUME NEW p, IsServiceConfig(p), p.destinations = <<>>
    PROVE  Normalize(p).destination_url = p.destination_url
<1> DEFINE n == Normalize(p)
<1>1. NormalFormOf(n, p)
  BY NormalForm DEF IsServiceConfig, IsRecord
<1> HIDE DEF n
<1>2. CASE p.destination_url = None
  <2>1. n.destinations = <<>>
    BY <1>1, <1>2 DEF NormalFormOf
  <2>2. Enabled(n.destinations) = {}
    BY <2>1 DEF Enabled
  <2> QED  BY <1>1, <2>2 DEF NormalFormOf, n
<1>3. CASE p.destination_url # None
  <2>1. n.destinations = <<DestinationFromFlat(p.destination_url)>>
    BY <1>1, <1>3 DEF NormalFormOf
  <2>2. /\ Enabled(n.destinations) # {}
        /\ LegacyUrl(FirstEnabled(n.destinations)) = p.destination_url
    BY <1>3, <2>1, FlatDestination
  <2> QED  BY <1>1, <2>2 DEF NormalFormOf, n
<1> QED  BY <1>2, <1>3

\* FFmpeg gets the same URLs from a row without structured columns, which a
\* start sends as it is, and from its normal form, which the startup of the
\* API sends (main.py:270-293, 458-466).
THEOREM LegacyRowsRunAlike == Spec => []LegacyRunsAlike
<1>1. ASSUME NEW p, IsServiceConfig(p), p.source = None, p.destinations = <<>>, NEW role
      PROVE  OutputUrl(p, role) = OutputUrl(Normalize(p), role)
  <2> DEFINE n == Normalize(p)
  <2>1. n.bindings = p.bindings /\ n.local = p.local
    BY <1>1, LegacyFields
  <2>2. n.destination_url = p.destination_url
    BY <1>1, LegacyDestination
  <2> HIDE DEF n
  <2>3. ResolveOutputBind(n, role) = ResolveOutputBind(p, role)
    BY <2>1 DEF ResolveOutputBind, BindingOf
  <2>4. OutputUrl(p, role) = OutputUrl(n, role)
    BY <2>2, <2>3 DEF OutputUrl
  <2> QED  BY <2>4 DEF n
<1>2. ASSUME Inv, status = "legacy", NEW role, NEW use_backup \in BOOLEAN
      PROVE  /\ InputUrl(row, role, use_backup) = InputUrl(Normalize(row), role, use_backup)
             /\ OutputUrl(row, role) = OutputUrl(Normalize(row), role)
  BY <1>1, <1>2, LegacyInput DEF Inv
<1>3. Inv => LegacyRunsAlike
  BY <1>2 DEF LegacyRunsAlike
<1> QED  BY <1>3, AlwaysInv, PTL

-----------------------------------------------------------------------------
(* What FFmpeg is given to write.                                          *)

\* The URL of a stored row, and what is on.
LEMMA StoredUrl ==
    ASSUME NEW p, IsServiceConfig(p), ValidRequest(p)
    PROVE  LET n == Normalize(Parsed(p))
           IN  /\ n.preview = p.preview /\ n.full = p.full
               /\ n.low.on = (p.low.on \/ p.preview) /\ n.low.seconds = p.low.seconds
               /\ n.local = p.local /\ n.bindings = p.bindings
               /\ p.destination_url # None \/ Enabled(p.destinations) # {} =>
                      n.destination_url \in DestinationUrl
<1> DEFINE r == Parsed(p)
           n == Normalize(r)
<1>1. IsRecord(r) /\ But(p, r, {"low"}) /\ r.low.on = (p.low.on \/ p.preview)
      /\ r.low.seconds = p.low.seconds
  BY ParsedEffect
<1> HIDE DEF r
<1>2. NormalFormOf(n, r)
  BY <1>1, NormalForm
<1> HIDE DEF n
<1>3. /\ r.preview = p.preview /\ r.full = p.full /\ r.local = p.local
      /\ r.bindings = p.bindings
      /\ r.destinations = p.destinations /\ r.destination_url = p.destination_url
  BY <1>1 DEF But, Field
<1>4. /\ n.preview = r.preview /\ n.full = r.full /\ n.low = r.low
      /\ n.local = r.local /\ n.bindings = r.bindings
  BY <1>2 DEF NormalFormOf, But, Field
<1>5. ASSUME Enabled(p.destinations) # {}
      PROVE  n.destination_url \in DestinationUrl
  <2> DEFINE d == FirstEnabled(p.destinations)
  <2>1. PICK i \in DOMAIN p.destinations : p.destinations[i].enabled /\ d = p.destinations[i]
    <3> DEFINE E == Enabled(p.destinations)
               i == CHOOSE j \in E : TRUE
    <3>1. i \in E
      BY <1>5, Zenon
    <3>2. d = p.destinations[i]
      BY DEF FirstEnabled
    <3> HIDE DEF i, d
    <3>3. i \in DOMAIN p.destinations /\ p.destinations[i].enabled
      BY <3>1 DEF Enabled
    <3> QED  BY <3>2, <3>3
  <2> HIDE DEF d
  <2>2. d \in DestinationConfig /\ HasTarget(d)
    <3>1. p.destinations \in Seq(DestinationConfig)
      BY DEF IsServiceConfig
    <3>2. p.destinations[i] \in DestinationConfig
      BY <3>1
    <3>3. HasTarget(p.destinations[i])
      BY <2>1 DEF ValidRequest
    <3> QED  BY <2>1, <3>2, <3>3
  <2>3. LegacyUrl(d) \in DestinationUrl
    BY <2>2, LegacyUrlType
  <2>4. p.destinations # <<>>
    <3> SUFFICES ASSUME p.destinations = <<>> PROVE FALSE
      OBVIOUS
    <3> QED  BY <2>1
  <2>5. n.destinations = p.destinations
    BY <1>2, <1>3, <2>4 DEF NormalFormOf
  <2>6. n.destination_url = LegacyUrl(d)
    BY <1>2, <1>5, <2>5 DEF NormalFormOf, d
  <2> QED  BY <2>3, <2>6
<1>6. ASSUME p.destination_url # None, Enabled(p.destinations) = {}
      PROVE  n.destination_url \in DestinationUrl
  <2>1. p.destination_url \in DestinationUrl
    BY <1>6 DEF IsServiceConfig, Maybe
  <2>2. CASE p.destinations = <<>>
    <3>1. n.destinations = <<DestinationFromFlat(p.destination_url)>>
      BY <1>2, <1>3, <1>6, <2>2 DEF NormalFormOf
    <3>2. n.destination_url = p.destination_url
      BY <1>2, <1>6, <3>1, FlatDestination DEF NormalFormOf
    <3> QED  BY <2>1, <3>2
  <2>3. CASE p.destinations # <<>>
    <3>1. n.destinations = p.destinations
      BY <1>2, <1>3, <2>3 DEF NormalFormOf
    <3>2. n.destination_url = p.destination_url
      BY <1>2, <1>3, <1>6, <3>1 DEF NormalFormOf
    <3> QED  BY <2>1, <3>2
  <2> QED  BY <2>2, <2>3
<1>7. p.destination_url # None \/ Enabled(p.destinations) # {} =>
          n.destination_url \in DestinationUrl
  BY <1>5, <1>6
<1>8. n.low.on = (p.low.on \/ p.preview) /\ n.low.seconds = p.low.seconds
  BY <1>1, <1>4
<1> QED  BY <1>3, <1>4, <1>7, <1>8 DEF n, r

LEMMA OutputBindType ==
    ASSUME NEW p, NEW role, p.local \in Maybe(Text),
           \A node \in DOMAIN p.bindings : p.bindings[node] \in NodeBinding
    PROVE  ResolveOutputBind(p, role) \in Maybe(Text)
<1> DEFINE b == BindingOf(p, role)
<1>1. b \in NodeBinding \/ b = NoBinding
  BY DEF BindingOf
<1>2. b.output \in Maybe(Text) /\ b.local \in Maybe(Text)
  BY <1>1 DEF NodeBinding, NoBinding, Maybe
<1> HIDE DEF b
<1>3. Or(b.output, Or(b.local, p.local)) \in Maybe(Text)
  BY <1>2 DEF Or
<1> QED  BY <1>3 DEF ResolveOutputBind, b

LEMMA UrlIsSent ==
    ASSUME NEW p, NEW role, p.destination_url \in DestinationUrl, p.local \in Maybe(Text),
           \A node \in DOMAIN p.bindings : p.bindings[node] \in NodeBinding
    PROVE  OutputUrl(p, role) # None
<1> DEFINE to == p.destination_url
           bind == ResolveOutputBind(p, role)
           url == OutputUrl(p, role)
<1>1. url = to \/ url = [to EXCEPT !.local = bind]
  BY DEF OutputUrl
<1>2. bind \in Maybe(Text)
  BY OutputBindType
<1> HIDE DEF url, bind
<1>3. [to EXCEPT !.local = bind] \in DestinationUrl
  BY <1>2 DEF DestinationUrl
<1>4. url \in DestinationUrl
  BY <1>1, <1>3
<1> QED  BY <1>4, Absent DEF url

LEMMA ProfileIsSent ==
    ASSUME NEW p, p.low.on \/ p.preview \/ p.full.on
    PROVE  HlsOutputs(p) # {}
<1>1. CASE p.full.on
  BY <1>1 DEF HlsOutputs
<1>2. CASE p.low.on \/ p.preview
  BY <1>2 DEF HlsOutputs, LowResEnabled
<1> QED  BY <1>1, <1>2

\* FFmpeg is given an output besides the preview picture, whichever of its four
\* places the request named it in and whichever version stored the row
\* (schemas.py:204-210, ffmpeg_builder.py:27-34, 280-308).
THEOREM SomethingIsAlwaysSent == Spec => []SomethingIsSent
<1>1. ASSUME Inv, row # None, NEW role
      PROVE  OutputUrl(row, role) # None \/ HlsOutputs(row) # {}
  <2>1. IsServiceConfig(request) /\ ValidRequest(request)
    BY <1>1 DEF Inv
  <2>2. /\ request.local \in Maybe(Text)
        /\ \A node \in DOMAIN request.bindings : request.bindings[node] \in NodeBinding
    BY <2>1 DEF IsServiceConfig
  <2>3. CASE status = "stored"
    <3>1. /\ row.preview = request.preview /\ row.full = request.full
          /\ row.low.on = (request.low.on \/ request.preview)
          /\ row.local = request.local /\ row.bindings = request.bindings
          /\ request.destination_url # None \/ Enabled(request.destinations) # {} =>
                 row.destination_url \in DestinationUrl
      BY <1>1, <2>1, <2>3, StoredUrl DEF Inv
    <3>2. CASE request.preview \/ request.low.on \/ request.full.on
      BY <3>1, <3>2, ProfileIsSent
    <3>3. CASE request.destination_url # None \/ Enabled(request.destinations) # {}
      BY <2>2, <3>1, <3>3, UrlIsSent
    <3> QED  BY <2>1, <3>2, <3>3 DEF ValidRequest
  <2>4. CASE status = "legacy"
    <3>1. row = request /\ Enabled(request.destinations) = {}
      BY <1>1, <2>4 DEF Inv, Enabled
    <3>2. CASE request.preview \/ request.low.on \/ request.full.on
      BY <3>1, <3>2, ProfileIsSent
    <3>3. CASE request.destination_url # None
      <4>1. request.destination_url \in DestinationUrl
        BY <2>1, <3>3 DEF IsServiceConfig, Maybe
      <4> QED  BY <2>2, <3>1, <4>1, UrlIsSent
    <3> QED  BY <2>1, <3>1, <3>2, <3>3 DEF ValidRequest
  <2> QED  BY <1>1, <2>3, <2>4 DEF Inv
<1>2. Inv => SomethingIsSent
  BY <1>1 DEF SomethingIsSent
<1> QED  BY <1>2, AlwaysInv, PTL

-----------------------------------------------------------------------------
(* The size of the HLS buffers.                                            *)

LEMMA MaxOfTwo ==
    ASSUME NEW k \in Nat \ {0}
    PROVE  Max({1, k}) = k
BY DEF Max

LEMMA MinOfTwo ==
    ASSUME NEW a \in Int, NEW b \in Int
    PROVE  Min({a, b}) = IF a <= b THEN a ELSE b
BY DEF Min

\* A playlist holds the buffer, and not a segment more than that takes.
LEMMA ListSizeBounds ==
    ASSUME NEW b \in Nat \ {0}
    PROVE  /\ ListSize(b, 2) \in Nat /\ b <= ListSize(b, 2) * 2 /\ ListSize(b, 2) * 2 < b + 2
           /\ ListSize(b, 6) \in Nat /\ b <= ListSize(b, 6) * 6 /\ ListSize(b, 6) * 6 < b + 6
<1> DEFINE k == (b + 2 - 1) \div 2
           m == (b + 6 - 1) \div 6
<1>1. k \in Nat \ {0} /\ b <= k * 2 /\ k * 2 < b + 2
  OBVIOUS
<1>2. m \in Nat \ {0} /\ b <= m * 6 /\ m * 6 < b + 6
  OBVIOUS
<1>3. ListSize(b, 2) = Max({1, k}) /\ ListSize(b, 6) = Max({1, m})
  BY DEF ListSize
<1> HIDE DEF k, m
<1>4. ListSize(b, 2) = k /\ ListSize(b, 6) = m
  BY <1>1, <1>2, <1>3, MaxOfTwo
<1> QED  BY <1>1, <1>2, <1>4

\* The one output of a height, and what it keeps and adds.
Of(H, height) == {r \in H : r.height = height}
KeptOf(H, height) ==
    LET r == CHOOSE r \in Of(H, height) : TRUE
    IN  IF Of(H, height) = {} THEN 0 ELSE r.size * r.segment * r.rate
OneMoreOf(H, height) ==
    LET r == CHOOSE r \in Of(H, height) : TRUE
    IN  IF Of(H, height) = {} THEN 0 ELSE r.segment * r.rate

LEMMA SizesByHeight ==
    ASSUME NEW H
    PROVE  /\ Kept(H) = KeptOf(H, 360) + KeptOf(H, 480) + KeptOf(H, 720) + KeptOf(H, 1080)
           /\ OneMore(H) = OneMoreOf(H, 360) + OneMoreOf(H, 480) + OneMoreOf(H, 720)
                           + OneMoreOf(H, 1080)
BY DEF Kept, OneMore, SizeOf, KeptOf, OneMoreOf, Of

LEMMA SizeOfOne ==
    ASSUME NEW H, NEW height, NEW r, Of(H, height) = {r}
    PROVE  /\ KeptOf(H, height) = r.size * r.segment * r.rate
           /\ OneMoreOf(H, height) = r.segment * r.rate
<1> DEFINE c == CHOOSE x \in Of(H, height) : TRUE
<1>1. c = r
  OBVIOUS
<1>2. Of(H, height) # {}
  OBVIOUS
<1>3. /\ KeptOf(H, height) = c.size * c.segment * c.rate
      /\ OneMoreOf(H, height) = c.segment * c.rate
  BY <1>2 DEF KeptOf, OneMoreOf
<1> HIDE DEF c
<1> QED  BY <1>1, <1>3

LEMMA SizeOfNone ==
    ASSUME NEW H, NEW height, Of(H, height) = {}
    PROVE  KeptOf(H, height) = 0 /\ OneMoreOf(H, height) = 0
BY DEF KeptOf, OneMoreOf

LEMMA Heights ==
    ASSUME NEW p, p.low.on \in BOOLEAN, p.preview \in BOOLEAN, p.full.on \in BOOLEAN
    PROVE  LET H == HlsOutputs(p)
               low == p.low.seconds
               full == FullSeconds(p)
           IN  /\ LowResEnabled(p) =>
                      /\ Of(H, 360) = {Rendition(360, 400 + 64, low, 2)}
                      /\ Of(H, 480) = {Rendition(480, 800 + 96, low, 2)}
               /\ ~LowResEnabled(p) => Of(H, 360) = {} /\ Of(H, 480) = {}
               /\ p.full.on =>
                      /\ Of(H, 720) = {Rendition(720, 3000 + 128, full, 6)}
                      /\ Of(H, 1080) = {Rendition(1080, 6000 + 160, full, 6)}
               /\ ~p.full.on => Of(H, 720) = {} /\ Of(H, 1080) = {}
<1> DEFINE H == HlsOutputs(p)
           low == p.low.seconds
           full == FullSeconds(p)
           a == Rendition(360, 400 + 64, low, 2)
           b == Rendition(480, 800 + 96, low, 2)
           c == Rendition(720, 3000 + 128, full, 6)
           d == Rendition(1080, 6000 + 160, full, 6)
<1>1. a.height = 360 /\ b.height = 480 /\ c.height = 720 /\ d.height = 1080
  BY DEF Rendition
<1>2. H = (IF LowResEnabled(p) THEN {a, b} ELSE {}) \cup (IF p.full.on THEN {c, d} ELSE {})
  BY DEF HlsOutputs
<1> HIDE DEF H, a, b, c, d
<1>3. LowResEnabled(p) => Of(H, 360) = {a} /\ Of(H, 480) = {b}
  BY <1>1, <1>2 DEF Of
<1>4. ~LowResEnabled(p) => Of(H, 360) = {} /\ Of(H, 480) = {}
  BY <1>1, <1>2 DEF Of
<1>5. p.full.on => Of(H, 720) = {c} /\ Of(H, 1080) = {d}
  BY <1>1, <1>2 DEF Of
<1>6. ~p.full.on => Of(H, 720) = {} /\ Of(H, 1080) = {}
  BY <1>1, <1>2 DEF Of
<1> QED  BY <1>3, <1>4, <1>5, <1>6 DEF H, a, b, c, d

\* What a profile keeps, asks for, and may exceed that by.
LEMMA BuffersOf ==
    ASSUME NEW p, p.low.on \in BOOLEAN, p.preview \in BOOLEAN, p.full.on \in BOOLEAN,
           p.low.seconds \in Nat \ {0}, p.full.seconds \in Nat \ {0}, HlsOutputs(p) # {}
    PROVE  LET H == HlsOutputs(p)
           IN  /\ EstimateHlsStorage(p) \in Int /\ Kept(H) \in Int /\ OneMore(H) \in Int
               /\ Kept(H) >= EstimateHlsStorage(p)
               /\ Kept(H) < EstimateHlsStorage(p) + OneMore(H)
<1> DEFINE H == HlsOutputs(p)
           low == p.low.seconds
           full == FullSeconds(p)
           k == ListSize(low, 2)
           m == ListSize(full, 6)
<1>1. full \in Nat \ {0}
  BY MinOfTwo DEF FullSeconds
<1> HIDE DEF full
<1>2. k \in Nat /\ low <= k * 2 /\ k * 2 < low + 2
  BY ListSizeBounds
<1>3. m \in Nat /\ full <= m * 6 /\ m * 6 < full + 6
  BY <1>1, ListSizeBounds
<1>4. /\ LowResEnabled(p) =>
             /\ Of(H, 360) = {Rendition(360, 400 + 64, low, 2)}
             /\ Of(H, 480) = {Rendition(480, 800 + 96, low, 2)}
      /\ ~LowResEnabled(p) => Of(H, 360) = {} /\ Of(H, 480) = {}
      /\ p.full.on =>
             /\ Of(H, 720) = {Rendition(720, 3000 + 128, full, 6)}
             /\ Of(H, 1080) = {Rendition(1080, 6000 + 160, full, 6)}
      /\ ~p.full.on => Of(H, 720) = {} /\ Of(H, 1080) = {}
  BY Heights DEF full
<1>5. /\ Kept(H) = KeptOf(H, 360) + KeptOf(H, 480) + KeptOf(H, 720) + KeptOf(H, 1080)
      /\ OneMore(H) = OneMoreOf(H, 360) + OneMoreOf(H, 480) + OneMoreOf(H, 720)
                      + OneMoreOf(H, 1080)
  BY SizesByHeight
<1> DEFINE kept == Kept(H)
           more == OneMore(H)
           need == EstimateHlsStorage(p)
<1>6. LowResEnabled(p) =>
          /\ KeptOf(H, 360) = k * 2 * (400 + 64) /\ OneMoreOf(H, 360) = 2 * (400 + 64)
          /\ KeptOf(H, 480) = k * 2 * (800 + 96) /\ OneMoreOf(H, 480) = 2 * (800 + 96)
  <2> DEFINE a == Rendition(360, 400 + 64, low, 2)
             b == Rendition(480, 800 + 96, low, 2)
  <2>1. /\ a.size = k /\ a.segment = 2 /\ a.rate = 400 + 64
        /\ b.size = k /\ b.segment = 2 /\ b.rate = 800 + 96
    BY DEF Rendition
  <2> SUFFICES ASSUME LowResEnabled(p)
               PROVE  /\ KeptOf(H, 360) = a.size * a.segment * a.rate
                      /\ OneMoreOf(H, 360) = a.segment * a.rate
                      /\ KeptOf(H, 480) = b.size * b.segment * b.rate
                      /\ OneMoreOf(H, 480) = b.segment * b.rate
    BY <2>1
  <2> HIDE DEF a, b, H
  <2>2. Of(H, 360) = {a} /\ Of(H, 480) = {b}
    BY <1>4 DEF a, b
  <2> QED  BY <2>2, SizeOfOne
<1>7. ~LowResEnabled(p) => /\ KeptOf(H, 360) = 0 /\ OneMoreOf(H, 360) = 0
                           /\ KeptOf(H, 480) = 0 /\ OneMoreOf(H, 480) = 0
  BY <1>4, SizeOfNone
<1>8. p.full.on =>
          /\ KeptOf(H, 720) = m * 6 * (3000 + 128) /\ OneMoreOf(H, 720) = 6 * (3000 + 128)
          /\ KeptOf(H, 1080) = m * 6 * (6000 + 160) /\ OneMoreOf(H, 1080) = 6 * (6000 + 160)
  <2> DEFINE c == Rendition(720, 3000 + 128, full, 6)
             d == Rendition(1080, 6000 + 160, full, 6)
  <2>1. /\ c.size = m /\ c.segment = 6 /\ c.rate = 3000 + 128
        /\ d.size = m /\ d.segment = 6 /\ d.rate = 6000 + 160
    BY DEF Rendition
  <2> SUFFICES ASSUME p.full.on
               PROVE  /\ KeptOf(H, 720) = c.size * c.segment * c.rate
                      /\ OneMoreOf(H, 720) = c.segment * c.rate
                      /\ KeptOf(H, 1080) = d.size * d.segment * d.rate
                      /\ OneMoreOf(H, 1080) = d.segment * d.rate
    BY <2>1
  <2> HIDE DEF c, d, H
  <2>2. Of(H, 720) = {c} /\ Of(H, 1080) = {d}
    BY <1>4 DEF c, d
  <2> QED  BY <2>2, SizeOfOne
<1>9. ~p.full.on => /\ KeptOf(H, 720) = 0 /\ OneMoreOf(H, 720) = 0
                    /\ KeptOf(H, 1080) = 0 /\ OneMoreOf(H, 1080) = 0
  BY <1>4, SizeOfNone
<1>10. need = (IF LowResEnabled(p) THEN low * (400 + 800 + 64 + 96) ELSE 0)
              + (IF p.full.on THEN full * (3000 + 6000 + 128 + 160) ELSE 0)
  BY DEF EstimateHlsStorage, full
<1>11. LowResEnabled(p) \/ p.full.on
  BY DEF HlsOutputs
<1> HIDE DEF H, low, k, m, need, kept, more
<1>12. low \in Nat
  BY DEF low
<1>13. /\ need \in Int /\ kept \in Int /\ more \in Int
       /\ kept >= need /\ kept < need + more
  <2>1. CASE LowResEnabled(p) /\ p.full.on
    BY <1>1, <1>2, <1>3, <1>5, <1>6, <1>8, <1>10, <1>12, <2>1 DEF kept, more
  <2>2. CASE LowResEnabled(p) /\ ~p.full.on
    BY <1>1, <1>2, <1>3, <1>5, <1>6, <1>9, <1>10, <1>12, <2>2 DEF kept, more
  <2>3. CASE ~LowResEnabled(p) /\ p.full.on
    BY <1>1, <1>2, <1>3, <1>5, <1>7, <1>8, <1>10, <1>12, <2>3 DEF kept, more
  <2> QED  BY <1>11, <2>1, <2>2, <2>3
<1> QED  BY <1>13 DEF kept, more, need, H

\* The storage check and the FFmpeg command compute the size of the buffers apart.
\* For every length of the buffers and every quota, what runs keeps at least the
\* buffers the config asks for, and exceeds the quota by less than a segment of
\* each playlist (ffmpeg_builder.py:58-82, 188-189, 246-258).
THEOREM BuffersStayInQuota == Spec => []BuffersFitQuota
<1>1. ASSUME Inv, ffmpeg = "started", HlsOutputs(row) # {}
      PROVE  /\ Kept(HlsOutputs(row)) >= EstimateHlsStorage(row)
             /\ Quota # 0 => Kept(HlsOutputs(row)) < Quota + OneMore(HlsOutputs(row))
  <2> DEFINE H == HlsOutputs(row)
             need == EstimateHlsStorage(row)
  <2>1. IsServiceConfig(request) /\ ValidRequest(request)
    BY <1>1 DEF Inv
  <2>2. /\ request.low \in HlsOutputProfile /\ request.full \in HlsOutputProfile
        /\ request.preview \in BOOLEAN
    BY <2>1 DEF IsServiceConfig
  <2>3. /\ row.preview = request.preview /\ row.full = request.full
        /\ row.low.seconds = request.low.seconds
        /\ row.low.on = request.low.on \/ row.low.on = (request.low.on \/ request.preview)
    <3>1. CASE status = "stored"
      BY <1>1, <2>1, <3>1, StoredUrl DEF Inv
    <3>2. CASE status = "legacy"
      BY <1>1, <3>2 DEF Inv
    <3> QED  BY <1>1, <3>1, <3>2 DEF Inv
  <2>4. /\ row.low.on \in BOOLEAN /\ row.preview \in BOOLEAN /\ row.full.on \in BOOLEAN
        /\ row.low.seconds \in Nat \ {0} /\ row.full.seconds \in Nat \ {0}
    BY <2>2, <2>3, StorageAssumption DEF HlsOutputProfile
  <2>5. /\ need \in Int /\ Kept(H) \in Int /\ OneMore(H) \in Int
        /\ Kept(H) >= need /\ Kept(H) < need + OneMore(H)
    BY <1>1, <2>4, BuffersOf
  <2>6. Quota # 0 => need <= Quota
    <3>1. PICK free \in {0, MinFree} : StorageAllows(row, free)
      BY <1>1 DEF Inv
    <3>2. LowResEnabled(row) \/ row.full.on
      BY <1>1 DEF HlsOutputs
    <3> QED  BY <3>1, <3>2 DEF StorageAllows
  <2> HIDE DEF H, need
  <2>7. Quota # 0 => Kept(H) < Quota + OneMore(H)
    BY <2>5, <2>6, StorageAssumption
  <2> QED  BY <2>5, <2>7 DEF H, need
<1>2. Inv => BuffersFitQuota
  BY <1>1 DEF BuffersFitQuota
<1> QED  BY <1>2, AlwaysInv, PTL
=============================================================================
