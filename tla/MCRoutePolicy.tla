---------------------------- MODULE MCRoutePolicy ----------------------------
(***************************************************************************)
(* Constants for TLC's run of RoutePolicy: requests that vary the source,  *)
(* requests that vary the destinations, requests that vary where a         *)
(* multicast source runs, and requests that vary the outputs.              *)
(***************************************************************************)
EXTENDS RoutePolicy

Groups == {"group"}
Texts == {AnyAddress, "near", "far", "group", "ip_a", "ip_b", "ip_m", "if_a", "playlist",
          "live", "name", "new", "peer"}
Interfaces ==
    {[id |-> "if_a", ip |-> "ip_a", roles |-> {"primary", "backup"}, input |-> TRUE],
     [id |-> "if_b", ip |-> "ip_b", roles |-> {"backup"}, input |-> TRUE],
     [id |-> "if_m", ip |-> "ip_m", roles |-> {}, input |-> FALSE]}

Endpoint(a, p, b, i) == [address |-> a, port |-> p, bind |-> b, interface |-> i]
Binding(i, o, l) == [input |-> i, output |-> o, local |-> l]
Url(s, p, sid) ==
    [scheme |-> s, address |-> "far", port |-> p, streamid |-> sid, local |-> None]
Profile(on, s) == [on |-> on, seconds |-> s]

\* A plain SRT listener on the primary worker with HLS output only.
Plain == [protocol |-> "srt", mode |-> "listener", ip |-> AnyAddress, port |-> 5,
          url |-> None, streamid |-> None, source |-> None, destinations |-> <<>>,
          destination_url |-> None, preview |-> FALSE, low |-> Profile(TRUE, 10),
          full |-> Profile(FALSE, 3600), backup |-> None, local |-> None,
          bindings |-> [primary |-> Binding("ip_a", "ip_b", None)],
          target |-> "primary", ha |-> "manual", failover |-> None]

Protocols == {"srt", "rtmp", "udp", "rist", "hls"}

FlatSources ==
    {[Plain EXCEPT !.protocol = pr, !.mode = m, !.ip = ip, !.port = p, !.url = u,
                   !.streamid = s, !.local = l, !.destination_url = d] :
        pr \in Protocols, m \in SourceMode, ip \in {AnyAddress, "near", "group"},
        p \in {None, 5, 9}, u \in {None, "playlist"}, s \in {None, "name"},
        l \in {None, "ip_a"}, d \in {None, Url("srt", 7, "peer"), Url("rtmp", None, None)}}

Sources ==
    {[protocol |-> pr, type |-> t, mode |-> m, endpoint |-> e, url |-> u, streamid |-> s] :
        pr \in Protocols, t \in {None, "multicast"}, m \in SourceMode \cup {None},
        e \in {None} \cup {Endpoint(a, p, b, None) : a \in {"near", "group"},
                                                   p \in {None, 6}, b \in {None, "ip_a"}},
        u \in {None, "live"}, s \in {None, "new"}}

StructuredSources ==
    {[Plain EXCEPT !.source = s, !.port = p, !.url = u, !.streamid = sid] :
        s \in Sources, p \in {None, 5}, u \in {None, "playlist"}, sid \in {None, "name"}}

Destinations ==
    {[protocol |-> pr, enabled |-> on, url |-> u, endpoint |-> e, streamid |-> s] :
        pr \in {"srt", "udp", "rtmp", "raw"}, on \in BOOLEAN,
        u \in {None, Url("rist", 8, None)},
        e \in {None, [address |-> "far", port |-> 6], [address |-> "far", port |-> None]},
        s \in {None, "peer"}}

\* a second destination: one to choose between, or one to pass over
Seconds ==
    {[protocol |-> "srt", enabled |-> on, url |-> None,
      endpoint |-> [address |-> "far", port |-> 9], streamid |-> None] : on \in BOOLEAN}

StructuredDestinations ==
    {[Plain EXCEPT !.destinations = ds, !.destination_url = u, !.low.on = h] :
        ds \in {<<d>> : d \in Destinations} \cup (Destinations \X Seconds),
        u \in {None, Url("srt", 7, "peer")}, h \in BOOLEAN}

Bindings ==
    {Binding(None, None, None), Binding("ip_a", None, None),
     Binding("ip_b", None, None), Binding(None, None, "ip_a")}

Placements ==
    {[Plain EXCEPT !.protocol = "udp", !.ip = "group", !.source = s, !.local = l, !.backup = k,
                   !.target = t, !.ha = h, !.failover = f,
                   !.bindings = [primary |-> a, backup |-> b]] :
        s \in {None} \cup {[protocol |-> "udp", type |-> "multicast", mode |-> None,
                            endpoint |-> Endpoint("group", 5, b, i), url |-> None,
                            streamid |-> None] :
                              b \in {None, "ip_a", "ip_m"}, i \in {None, "if_a"}},
        l \in {None, "ip_a"}, k \in {None, "near"}, t \in {"primary", "backup", "all", "worker_1"},
        h \in {"manual", "active_passive"},
        f \in {None, "backup", "worker_1"},
        a \in Bindings, b \in Bindings}

\* Buffers that fill their last segment and buffers that do not; an hour of full
\* resolution fits the quota with nine seconds of low resolution, not with ten.
Outputs ==
    {[Plain EXCEPT !.preview = pv, !.low = Profile(lo, ls), !.full = Profile(fo, fs),
                   !.destination_url = u, !.destinations = ds,
                   !.bindings = [primary |-> b]] :
        pv \in BOOLEAN, lo \in BOOLEAN, ls \in {1, 9, 10},
        fo \in BOOLEAN, fs \in {1, 3600, 4000, 86400},
        u \in {None, Url("udp", 8, None), [Url("srt", 7, "peer") EXCEPT !.local = "ip_m"],
               Url("rist", 8, None)},
        ds \in {<<>>} \cup {<<d>> : d \in Seconds},
        b \in {Binding(None, "ip_b", None), Binding(None, None, "ip_a")}}

AnyRequest == {FlatSources, StructuredSources, StructuredDestinations, Placements, Outputs}
=============================================================================
