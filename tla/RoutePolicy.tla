------------------------------ MODULE RoutePolicy ------------------------------
(***************************************************************************)
(* What the control plane and the workers compute from the config of one   *)
(* service: the schema's rules (api/schemas.py), normalisation between the *)
(* structured and the flat form of a route (api/route_normalizer.py), the  *)
(* multicast policy (backend/multicast_policy.py), and what a worker makes *)
(* of the result (worker/worker.py, backend/ffmpeg_builder.py).  The two   *)
(* sides share no state but the config, and read different fields of it.   *)
(*                                                                         *)
(* All of it is pure.  The behaviours are one request each: it is stored   *)
(* normalised, or refused, or its row is one that an earlier version of    *)
(* the program stored as it came; then a worker starts what was stored.    *)
(*                                                                         *)
(* A missing value and an empty string are the same thing to this code and *)
(* are both None.  A URL is the record of its parts.  Of the SRT options   *)
(* streamid stands for those that are copied when present.                 *)
(***************************************************************************)
EXTENDS Integers, Sequences, FiniteSetsExt

CONSTANTS
    None,           \* no value
    Text,           \* what is only copied and compared: addresses, Stream IDs, ...
    AnyAddress,     \* 0.0.0.0
    Group,          \* the IPv4 multicast addresses in use
    MinPort,        \* UDP_MULTICAST_PORT_MIN
    MaxPort,        \* UDP_MULTICAST_PORT_MAX
    Inventory,      \* interfaces: [id, ip, roles, input]
    MaxBuffer,      \* buffer_seconds of a profile: at most 86400
    MinFree,        \* HLS_MIN_FREE_BYTES
    Quota,          \* HLS_STORAGE_QUOTA_BYTES, in thousands of bits; 0 for none
    Requests        \* sets of bodies of POST and PUT

Production == {"primary", "backup"}     \* PRODUCTION_WORKER_ROLES

ASSUME PortAssumption == MinPort \in Nat \ {0} /\ MaxPort \in MinPort..65535
ASSUME StorageAssumption == MaxBuffer \in Nat \ {0} /\ MinFree \in Nat /\ Quota \in Nat
ASSUME AddressAssumption == AnyAddress \in Text /\ Group \subseteq Text \ {AnyAddress}

-----------------------------------------------------------------------------
(* What a request may hold (api/schemas.py).                               *)

Maybe(S) == S \cup {None}
Port == 1..65535
UrlPort == Port \cup {0}
SourceMode == {"listener", "caller"}

RouteEndpoint ==
    [address : Text, port : Maybe(Port), bind : Maybe(Text), interface : Maybe(Text)]

SourceConfig ==
    [protocol : {"srt", "rtmp", "udp", "rist", "hls"},
     type : {None, "unicast", "multicast"}, mode : Maybe(SourceMode),
     endpoint : Maybe(RouteEndpoint), url : Maybe(Text), streamid : Maybe(Text)]

\* A URL is text, and so are the ports it may name.
DestinationUrl ==
    [scheme : {"srt", "udp", "rtmp", "rtmps", "rist"}, address : Maybe(Text),
     port : Maybe(UrlPort), streamid : Maybe(Text), local : Maybe(Text)]

\* The endpoint of a destination: its bind and interface are read by nothing.
Target == [address : Text, port : Maybe(Port)]

DestinationConfig ==
    [protocol : {"srt", "udp", "rtmp", "rtmps", "rist", "raw"}, enabled : BOOLEAN,
     url : Maybe(DestinationUrl), endpoint : Maybe(Target), streamid : Maybe(Text)]

NodeBinding == [input : Maybe(Text), output : Maybe(Text), local : Maybe(Text)]

HlsOutputProfile == [on : BOOLEAN, seconds : 1..MaxBuffer]

Field ==
    {"protocol", "mode", "ip", "port", "url", "streamid", "source", "destinations",
     "destination_url", "preview", "low", "full", "backup", "local", "bindings",
     "target", "ha", "failover"}

\* Node names, target_node and failover_node among them, may be anything.
IsServiceConfig(p) ==
    /\ p = [f \in Field |-> p[f]]
    /\ p.protocol \in {"srt", "rtmp", "udp", "rist", "hls"}
    /\ p.mode \in SourceMode
    /\ p.ip \in Text
    /\ p.port \in Maybe(Port)
    /\ p.url \in Maybe(Text) /\ p.streamid \in Maybe(Text)
    /\ p.source \in Maybe(SourceConfig)
    /\ p.destinations \in Seq(DestinationConfig)
    /\ p.destination_url \in Maybe(DestinationUrl)
    /\ p.preview \in BOOLEAN
    /\ p.low \in HlsOutputProfile /\ p.full \in HlsOutputProfile
    /\ p.backup \in Maybe(Text) /\ p.local \in Maybe(Text)
    /\ \A node \in DOMAIN p.bindings : p.bindings[node] \in NodeBinding

ASSUME NoneAssumption ==
    None \notin Text \cup Int \cup SourceConfig \cup RouteEndpoint
               \cup DestinationUrl \cup Target \cup Production
ASSUME RequestsAssumption == \A R \in Requests : \A p \in R : IsServiceConfig(p)

-----------------------------------------------------------------------------

VARIABLES
    request,    \* the body of the request
    row,        \* the row stored for it, or None
    status,     \* "received", "stored", "refused", or "legacy"
    ffmpeg      \* what became of its start on a worker: "none", "started", "no space"

vars == <<request, row, status, ffmpeg>>

\* `a or b' of Python
Or(a, b) == IF a # None THEN a ELSE b

-----------------------------------------------------------------------------
(* api/schemas.py                                                          *)

HasTarget(d) ==
    \/ d.url # None
    \/ d.protocol # "raw" /\ d.endpoint # None /\ d.endpoint.port # None

\* The positions of the enabled ones.
Enabled(destinations) == {i \in DOMAIN destinations : destinations[i].enabled}

\* A validator of the request reads the structured source where there is one.
ValidSource(p) ==
    LET protocol == IF p.source # None THEN p.source.protocol ELSE p.protocol
    IN  IF protocol = "hls"
        THEN (IF p.source # None THEN p.source.url ELSE p.url) # None
        ELSE (IF p.source # None /\ p.source.endpoint # None
              THEN p.source.endpoint.port ELSE p.port) # None

ValidRequest(p) ==
    /\ \A i \in DOMAIN p.destinations :
           p.destinations[i].enabled => HasTarget(p.destinations[i])
    /\ p.destination_url # None \/ p.preview \/ p.low.on \/ p.full.on
       \/ Enabled(p.destinations) # {}
    /\ p.low.seconds \in 1..MaxBuffer /\ p.full.seconds \in 1..MaxBuffer
    /\ ValidSource(p)

\* The validator also turns the older switch of the low resolution profile into
\* the new one.
Parsed(p) == [p EXCEPT !.low.on = @ \/ p.preview]

-----------------------------------------------------------------------------
(* api/route_normalizer.py                                                 *)

\* Mutant, a form a plausible bug would give the code: the group of a flat UDP
\* source is not looked at.
UnicastFromFlat(p) ==
    [protocol |-> p.protocol, type |-> IF p.protocol = "udp" THEN "unicast" ELSE None,
     mode |-> p.mode,
     endpoint |-> IF p.protocol = "hls" THEN None
                  ELSE [address |-> p.ip, port |-> p.port, bind |-> None, interface |-> None],
     url |-> IF p.protocol = "hls" THEN p.url ELSE None,
     streamid |-> IF p.protocol = "srt" THEN p.streamid ELSE None]

\* _source_from_flat
SourceFromFlat(p) ==
    IF p.protocol = "hls"
    THEN [protocol |-> "hls", type |-> None, mode |-> None, endpoint |-> None,
          url |-> p.url, streamid |-> None]
    ELSE [protocol |-> p.protocol,
          type |-> CASE p.protocol # "udp" -> None
                     [] p.protocol = "udp" /\ p.ip \in Group -> "multicast"
                     [] p.protocol = "udp" /\ p.ip \notin Group -> "unicast",
          mode |-> p.mode,
          endpoint |-> [address |-> p.ip, port |-> p.port, bind |-> None, interface |-> None],
          url |-> None,
          streamid |-> IF p.protocol = "srt" THEN p.streamid ELSE None]

\* _destination_from_flat
DestinationFromFlat(url) ==
    [protocol |-> url.scheme, enabled |-> TRUE, url |-> url,
     endpoint |-> IF url.scheme \in {"srt", "udp", "rist"}
                  THEN [address |-> Or(url.address, AnyAddress), port |-> url.port]
                  ELSE None,
     streamid |-> IF url.scheme = "srt" THEN url.streamid ELSE None]

\* build_legacy_destination_url, for a destination that HasTarget
LegacyUrl(d) ==
    IF d.url # None THEN d.url
    ELSE [scheme |-> d.protocol, address |-> d.endpoint.address, port |-> d.endpoint.port,
          streamid |-> IF d.protocol = "srt" THEN d.streamid ELSE None, local |-> None]

\* Mutant: the flat port is kept where there is one.
KeepPort(p) ==
    LET s == p.source
    IN  [p EXCEPT !.protocol = s.protocol, !.mode = Or(s.mode, p.mode),
                  !.url = IF s.protocol = "hls" THEN Or(s.url, p.url) ELSE p.url,
                  !.ip = IF s.protocol # "hls" /\ s.endpoint # None THEN s.endpoint.address ELSE p.ip,
                  !.port = IF s.protocol # "hls" /\ s.endpoint # None
                           THEN Or(p.port, s.endpoint.port) ELSE p.port,
                  !.streamid = Or(s.streamid, p.streamid)]

\* derive_legacy_fields, the source: the structured form wins where it speaks.
DeriveSource(p) ==
    LET s == p.source
        flat == [p EXCEPT !.protocol = s.protocol, !.mode = Or(s.mode, p.mode),
                          !.streamid = Or(s.streamid, p.streamid)]
    IN  IF s.protocol = "hls" THEN [flat EXCEPT !.url = Or(s.url, p.url), !.port = None]
        ELSE IF s.endpoint = None THEN flat
        ELSE [flat EXCEPT !.ip = s.endpoint.address, !.port = Or(s.endpoint.port, p.port)]

\* _first_enabled_destination raises on a second one.
Normalizable(p) == \A i, j \in Enabled(p.destinations) : i = j

FirstEnabled(destinations) == destinations[CHOOSE i \in Enabled(destinations) : TRUE]

DeriveDestination(p) ==
    IF Enabled(p.destinations) = {} THEN p
    ELSE [p EXCEPT !.destination_url = LegacyUrl(FirstEnabled(p.destinations))]

\* Mutant: the flat fields are derived before the structured form is filled in.
NormalizeLate(p) ==
    LET derived == DeriveDestination(IF p.source = None THEN p ELSE DeriveSource(p))
    IN  [derived EXCEPT
            !.source = Or(p.source, SourceFromFlat(p)),
            !.destinations = IF p.destinations # <<>> \/ p.destination_url = None
                             THEN p.destinations
                             ELSE <<DestinationFromFlat(p.destination_url)>>]

\* normalize_service_payload
Normalize(p) ==
    LET filled == [p EXCEPT
            !.source = Or(p.source, SourceFromFlat(p)),
            !.destinations = IF p.destinations # <<>> \/ p.destination_url = None
                             THEN p.destinations
                             ELSE <<DestinationFromFlat(p.destination_url)>>]
    IN  DeriveDestination(DeriveSource(filled))

-----------------------------------------------------------------------------
(* backend/multicast_policy.py                                             *)

IsUdpMulticast(p) ==
    IF p.source # None THEN p.source.protocol = "udp" /\ p.source.type = "multicast"
                       ELSE p.protocol = "udp" /\ p.ip \in Group

\* source_endpoint
SourceEndpoint(p) ==
    LET e == IF p.source # None THEN p.source.endpoint ELSE None
    IN  IF e = None
        THEN [address |-> p.ip, port |-> p.port, bind |-> None, interface |-> None]
        ELSE [e EXCEPT !.port = Or(e.port, p.port)]

NoBinding == [input |-> None, output |-> None, local |-> None]

\* resolve_input_bind_ip; role None is a service that names no worker.
ResolveMulticastBind(p, role) ==
    LET binding == IF role \in DOMAIN p.bindings THEN p.bindings[role]
                                                 ELSE NoBinding
    IN  Or(binding.input, Or(SourceEndpoint(p).bind, Or(binding.local, p.local)))

\* Mutant: the worker of failover_node is forgotten.
TargetRoles(p) == IF p.target = "all" THEN Production ELSE {p.target}

EligibleRoles(p) ==
    IF p.target = "all" THEN Production
    ELSE {p.target} \cup (IF p.ha = "active_passive" /\ p.failover # None
                          THEN {p.failover} ELSE {})

\* Mutant: the bind of the service, whichever worker runs it.
ServiceBindKeys(p) ==
    IF ~IsUdpMulticast(p) \/ SourceEndpoint(p).port = None THEN {}
    ELSE {<<ip, SourceEndpoint(p).port>> : ip \in {ResolveMulticastBind(p, None)} \ {None}}

\* multicast_bind_keys
BindKeys(p) ==
    IF ~IsUdpMulticast(p) \/ SourceEndpoint(p).port = None THEN {}
    ELSE {<<ip, SourceEndpoint(p).port>> :
              ip \in {ResolveMulticastBind(p, role) : role \in EligibleRoles(p)} \ {None}}

\* validate_endpoint_interface: the id is that of one video input interface,
\* and the bind is its address.
ValidInterface(p) ==
    LET e == SourceEndpoint(p)
        matches == {i \in Inventory : i.id = e.interface}
    IN  e.interface # None =>
            /\ Cardinality(matches) = 1
            /\ \A i \in matches : i.input /\ e.bind = i.ip

\* validate_multicast_config, without an inventory, as a worker calls it
Preflight(p, role) ==
    /\ SourceEndpoint(p).address \in Group
    /\ SourceEndpoint(p).port # None
    /\ SourceEndpoint(p).port \in MinPort..MaxPort
    /\ ResolveMulticastBind(p, role) # None

\* validate_multicast_policy, which adds the inventory
Policy(p) ==
    IsUdpMulticast(p) =>
        /\ ValidInterface(p)
        /\ \A role \in EligibleRoles(p) :
               /\ Preflight(p, role)
               /\ \E i \in Inventory :
                      /\ i.input /\ i.ip = ResolveMulticastBind(p, role)
                      /\ role \in Production => role \in i.roles

-----------------------------------------------------------------------------
(* The worker (worker/worker.py, backend/ffmpeg_builder.py).               *)

\* should_run_on_node
RunsOn(p, role) ==
    IF p.ha = "active_passive" THEN role \in {p.target, p.failover}
                               ELSE p.target \in {"all", role}

\* _node_binding of the builder, which knows its role
BindingOf(p, role) == IF role \in DOMAIN p.bindings THEN p.bindings[role] ELSE NoBinding

\* resolve_input_bind_ip of the builder
ResolveInputBind(p, role) ==
    IF IsUdpMulticast(p) THEN ResolveMulticastBind(p, role)
    ELSE Or(BindingOf(p, role).input, Or(BindingOf(p, role).local, p.local))

\* resolve_output_bind_ip
ResolveOutputBind(p, role) ==
    Or(BindingOf(p, role).output, Or(BindingOf(p, role).local, p.local))

\* with_output_bind_url, for the destination: an address that the URL names
\* itself gives way.
OutputUrl(p, role) ==
    LET url == p.destination_url
        bind == ResolveOutputBind(p, role)
    IN  IF url # None /\ bind # None /\ url.scheme \in {"srt", "udp"}
        THEN [url EXCEPT !.local = bind] ELSE url

\* build_input_url: the structured address, and its port for UDP alone.  The
\* alternate address is one for every protocol but HLS.
InputUrl(p, role, use_backup) ==
    LET e == SourceEndpoint(p)
        address == IF use_backup THEN Or(p.backup, e.address) ELSE e.address
        bind == ResolveInputBind(p, role)
        Url(host, port, local, streamid) ==
            [scheme |-> p.protocol, host |-> host, port |-> port, localaddr |-> local,
             mode |-> IF p.protocol = "udp" THEN None ELSE p.mode, streamid |-> streamid,
             reuse |-> p.protocol = "udp" /\ IsUdpMulticast(p)]
    IN  CASE p.protocol = "hls" -> [url |-> Or(p.url, address)]
          [] p.protocol = "srt" /\ p.mode = "listener" ->
                 Url(Or(bind, address), p.port, None, p.streamid)
          [] p.protocol = "srt" /\ p.mode = "caller" -> Url(address, p.port, bind, p.streamid)
          [] p.protocol = "udp" -> Url(address, Or(e.port, p.port), bind, None)
          [] p.protocol \in {"rist", "rtmp"} -> Url(address, p.port, None, None)

-----------------------------------------------------------------------------
(* The HLS outputs of the builder.  Bit rates are in thousands of bits per *)
(* second, sizes in thousands of bits; the code rounds nothing off these.  *)

\* Mutant: the older switch is forgotten.
LowResSwitch(p) == p.low.on

LowResEnabled(p) == p.low.on \/ p.preview

FullSeconds(p) == Min({p.full.seconds, 86400})

\* Mutant: one rendition of each profile is counted.
EstimateOfOne(p) ==
    (IF LowResEnabled(p) THEN p.low.seconds * (800 + 96) ELSE 0)
    + (IF p.full.on THEN FullSeconds(p) * (6000 + 160) ELSE 0)

\* estimate_hls_storage_bytes
EstimateHlsStorage(p) ==
    (IF LowResEnabled(p) THEN p.low.seconds * (400 + 800 + 64 + 96) ELSE 0)
    + (IF p.full.on THEN FullSeconds(p) * (3000 + 6000 + 128 + 160) ELSE 0)

\* validate_hls_storage
StorageAllows(p, free) ==
    LowResEnabled(p) \/ p.full.on =>
        free >= MinFree /\ (Quota # 0 => EstimateHlsStorage(p) <= Quota)

\* _hls_list_size
ListSize(buffer, segment) == Max({1, (buffer + segment - 1) \div segment})

Rendition(height, rate, buffer, segment) ==
    [height |-> height, rate |-> rate, segment |-> segment,
     size |-> ListSize(buffer, segment)]

\* _append_hls_outputs
HlsOutputs(p) ==
    (IF LowResEnabled(p) THEN {Rendition(360, 400 + 64, p.low.seconds, 2),
                               Rendition(480, 800 + 96, p.low.seconds, 2)} ELSE {})
    \cup
    (IF p.full.on THEN {Rendition(720, 3000 + 128, FullSeconds(p), 6),
                        Rendition(1080, 6000 + 160, FullSeconds(p), 6)} ELSE {})

-----------------------------------------------------------------------------
Init ==
    /\ request \in UNION Requests
    /\ ValidRequest(request)
    /\ row = None
    /\ status = "received"
    /\ ffmpeg = "none"

Admitted(p) == Normalizable(p) /\ Policy(Normalize(p))

\* create_service, update_service
Store ==
    /\ status = "received" /\ Admitted(request)
    /\ row' = Normalize(Parsed(request))
    /\ status' = "stored"
    /\ UNCHANGED <<request, ffmpeg>>

Refuse ==
    /\ status = "received" /\ ~Admitted(request)
    /\ status' = "refused"
    /\ UNCHANGED <<request, row, ffmpeg>>

\* A row from before there were structured columns; a start sends it as it is
\* once its normal form is admitted.
StartLegacyRow ==
    /\ status = "received"
    /\ request.source = None /\ request.destinations = <<>> /\ Admitted(request)
    /\ row' = request
    /\ status' = "legacy"
    /\ UNCHANGED <<request, ffmpeg>>

\* build_ffmpeg_command on a worker whose disk has more or less room
Start ==
    /\ row # None /\ ffmpeg = "none"
    /\ \E free \in {0, MinFree} :
           ffmpeg' = IF StorageAllows(row, free) THEN "started" ELSE "no space"
    /\ UNCHANGED <<request, row, status>>

Next == Store \/ Refuse \/ StartLegacyRow \/ Start

Spec == Init /\ [][Next]_vars

-----------------------------------------------------------------------------
(* Properties.                                                             *)

\* What is stored is a fixed point of normalisation: the start of a service
\* and the startup of the API, which normalise the row again, see the config
\* that was admitted (route_normalizer.py:193-203, main.py:270, 445).
StoredIsStable == status = "stored" => Normalize(row) = row

\* A production worker that is to run an admitted service does not refuse it
\* in its preflight, although API and worker decide who runs it by different
\* functions (main.py:168-177, worker.py:31-34, 309-310).
WorkerAccepts ==
    row # None /\ IsUdpMulticast(row) =>
        \A role \in Production : RunsOn(row, role) => Preflight(row, role)

\* The (bind IP, port) that FFmpeg opens on a production worker, for the main or
\* the alternate input, is one of those that admission compared with other
\* services (multicast_policy.py:128-138, ffmpeg_builder.py:91-98, 149-155).
BindIsClaimed ==
    row # None /\ IsUdpMulticast(row) =>
        \A role \in Production, use_backup \in BOOLEAN : RunsOn(row, role) =>
            LET url == InputUrl(row, role, use_backup)
            IN  <<url.localaddr, url.port>> \in BindKeys(Normalize(row))

\* Whichever form the builder reads, FFmpeg listens on or calls the port of
\* the structured source, and sends to the enabled structured destination with
\* its Stream ID, also when its output is bound (route_normalizer.py:159-190,
\* ffmpeg_builder.py:111-170).
RunsWhatWasAsked ==
    status = "stored" =>
        /\ request.source # None /\ row.protocol # "hls" /\ request.source.endpoint # None =>
               \A role \in Production :
                   InputUrl(row, role, FALSE).port = request.source.endpoint.port
        /\ \A i \in DOMAIN request.destinations, role \in Production :
               LET d == request.destinations[i]
                   sent == DestinationFromFlat(OutputUrl(row, role))
               IN  d.enabled /\ d.url = None /\ d.protocol \in {"srt", "udp", "rist"} =>
                       /\ sent.endpoint = d.endpoint
                       /\ d.protocol = "srt" => sent.streamid = d.streamid

\* FFmpeg gets the same URLs from a row without structured columns, which a
\* start sends as it is, and from its normal form, which the startup of the
\* API sends (main.py:270-293, 458-466).
LegacyRunsAlike ==
    status = "legacy" =>
        \A role \in Production, use_backup \in BOOLEAN :
            /\ InputUrl(row, role, use_backup) = InputUrl(Normalize(row), role, use_backup)
            /\ OutputUrl(row, role) = OutputUrl(Normalize(row), role)

\* FFmpeg is given an output besides the preview picture, whichever of its four
\* places the request named it in and whichever version stored the row
\* (schemas.py:204-210, ffmpeg_builder.py:27-34, 280-308).
SomethingIsSent ==
    row # None => \A role \in Production : OutputUrl(row, role) # None \/ HlsOutputs(row) # {}

\* The size of HLS outputs H, one of each height at most.
SizeOf(H, Size(_)) ==
    LET Of(height) == LET R == {r \in H : r.height = height}
                      IN  IF R = {} THEN 0 ELSE Size(CHOOSE r \in R : TRUE)
    IN  Of(360) + Of(480) + Of(720) + Of(1080)

\* Their playlists, and one segment of each.
Kept(H) == SizeOf(H, LAMBDA r : r.size * r.segment * r.rate)
OneMore(H) == SizeOf(H, LAMBDA r : r.segment * r.rate)

\* The storage check and the FFmpeg command compute the size of the buffers
\* apart.  What runs keeps at least the buffers the config asks for, and exceeds
\* the quota by less than a segment of each playlist (ffmpeg_builder.py:58-82,
\* 188-189, 246-258).
BuffersFitQuota ==
    ffmpeg = "started" /\ HlsOutputs(row) # {} =>
        /\ Kept(HlsOutputs(row)) >= EstimateHlsStorage(row)
        /\ Quota # 0 => Kept(HlsOutputs(row)) < Quota + OneMore(HlsOutputs(row))

=============================================================================
