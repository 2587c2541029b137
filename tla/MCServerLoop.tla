---------------------------- MODULE MCServerLoop ----------------------------
(* Small instances of ServerLoop for TLC: two calls, two addresses. *)
EXTENDS ServerLoop, TLC

CONSTANTS c1, c2, a1, a2

Calls == {c1, c2}
Addresses == {a1, a2}

\* An offer with an address for the session and one for a medium; one with an
\* address followed by a line that has none; one with no address; a body
\* without media, which does not parse; no body.
Offer == <<Connection(a1), MediaLine("audio", 6010), Other, MediaLine("video", 6012), Connection(a2)>>
Bare == <<Connection(a1), Connection(NoAddr), MediaLine("audio", 6010)>>
NoConnection == <<MediaLine("audio", 6010)>>
NoMedia == <<Connection(a1)>>

Bodies == {Offer, Bare, NoConnection, NoMedia, <<>>}

Msg(kind, id, full, body, invite, bye) ==
  [kind |-> kind, id |-> id, full |-> full, seen |-> id, body |-> body,
   invite |-> invite, bye |-> bye]

Invite(c, body) == Msg("INVITE", c, TRUE, body, TRUE, FALSE)

\* The same text in which main's search finds `seen`.
SeenAs(m, seen) == [m EXCEPT !.seen = seen]

\* For each call: its INVITE with an offer of its own, the same INVITE without
\* the cached headers and with an Allow header that lists BYE, an ACK that
\* lists the methods its sender allows, BYE, CANCEL and the responses that can
\* follow; an INVITE without Call-ID, one whose Call-ID main does not find, one
\* in which it finds the other call's; a text no handler takes.
CallMessages(c, offer) ==
  {Invite(c, offer), Msg("INVITE", c, FALSE, NoMedia, TRUE, TRUE),
   Msg("ACK", c, FALSE, <<>>, TRUE, TRUE),
   Msg("BYE", c, FALSE, <<>>, FALSE, TRUE),
   Msg("CANCEL", c, FALSE, <<>>, FALSE, FALSE),
   Msg("2xx", c, FALSE, NoConnection, TRUE, FALSE),
   Msg("3xx+", c, FALSE, <<>>, TRUE, FALSE)}

AllMessages == CallMessages(c1, Offer) \cup CallMessages(c2, Bare)
                 \cup {Invite(c1, Bare), Invite(NoCall, Offer),
                       SeenAs(Invite(c1, Bare), NoCall),
                       SeenAs(Invite(c2, Offer), c1),
                       Msg("other", c1, FALSE, <<>>, FALSE, FALSE)}

\* What a caller and its ordinary acknowledgements send.
PlainMessages == UNION {{Invite(c, Offer), Msg("ACK", c, FALSE, <<>>, TRUE, FALSE),
                         Msg("BYE", c, FALSE, <<>>, FALSE, TRUE)} : c \in Calls}
=============================================================================
