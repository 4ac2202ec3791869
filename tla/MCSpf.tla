------------------------------- MODULE MCSpf -------------------------------
(***************************************************************************)
(* Instances of Spf for TLC: two-bit bytes, IPv4 addresses of two bytes    *)
(* and IPv6 addresses of three.                                            *)
(***************************************************************************)
EXTENDS Spf, TLC

CONSTANTS d1, d2

V4a == <<1, 2>>
V4b == <<1, 3>>
V6  == <<1, 2, 3>>
Peers == {V4a, V4b, V6}

T(m, q, d, n, b) == [m |-> m, q |-> q, dom |-> d, net |-> n, bits |-> b]
Plain(m, q)      == T(m, q, NoName, <<>>, 0)
Named(m, d)      == T(m, "+", d, <<>>, 0)

\* Prefixes that end inside a byte, at one, at 0, and past the address.
Networks ==
  { T("ip4:", "+", NoName, V4a, 3), T("ip4:", "-", NoName, <<1, 0>>, 3),
    T("ip4:", "~", NoName, <<0, 0>>, 0), T("ip4:", "+", NoName, V4a, 5),
    T("ip4:", "+", NoName, V6, 2),
    T("ip6:", "-", NoName, <<1, 2, 0>>, 4), T("ip6:", "+", NoName, <<1, 2, 0>>, 5) }
Hosts ==
  { Plain("a", "+"), Named("a:", d2), T("A:", "-", d2, <<>>, 3),
    Plain("mx", "+"), Plain("mx", "-") }
NoHosts ==
  { Named("include:", d2), Plain("a/", "+"), Plain("a:/", "+"),
    Plain("mx/", "+"), T("mx/", "-", d1, <<>>, 3), Named("mx:", d2) }
Others == { Plain("all", "-"), Plain("all", "?"), Plain("ptr", "+"), Plain("exp=", "+") }
Targets == { Named("redirect=", d) : d \in {d1, d2, Empty, NoName} }

Terms == Networks \cup Hosts \cup NoHosts \cup Others \cup Targets

Text(r)  == [spf |-> TRUE, terms |-> r]
NotSpf   == [spf |-> FALSE, terms |-> <<>>]

\* The sender's record is any pair of terms; the other name has none, no SPF
\* text, two of them, or a record that may redirect back.
TextsA == { <<Text(<<s, t>>)>> : s, t \in Terms }
TextsB ==
  { <<>>, <<NotSpf>>, <<NotSpf, Text(<<Plain("a", "+")>>)>>,
    <<Text(<<Named("a:", d1), Named("redirect=", d1)>>)>>,
    <<Text(<<Plain("all", "-")>>), Text(<<Plain("all", "+")>>)>> }

SmallZones ==
  { [txt |-> d1 :> t @@ d2 :> u, addr |-> d1 :> {V4a} @@ d2 :> a, mx |-> d1 :> m @@ d2 :> <<>>] :
      t \in TextsA, u \in TextsB, a \in {{}, {V4b, V6}}, m \in {<<>>, <<d2, d1>>} }
=============================================================================
