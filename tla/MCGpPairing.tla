---------------------------- MODULE MCGpPairing ----------------------------
(* Model checking GpPairing: the connections, addresses and None are model *)
(* values, given in the configurations.                                    *)
EXTENDS GpPairing, Naturals, FiniteSets, TLC

\* Connections of one kind are interchangeable, and so are addresses.  Only
\* configurations without liveness properties use this.
Symmetry == Permutations(AssetConn) \cup Permutations(ControllerConn) \cup Permutations(Addr)

Sessions(kind) == Cardinality({c \in kind : pc[c] # "new"})

Gone(kind) == Cardinality({c \in kind : conn[c] \in {"gone", "reset"}})

\* The asset's client does not go away.
AssetStays == Gone(AssetConn) = 0

\* LOGOUT messages with one session of each kind; without them, two sessions
\* of the asset and one of a controller, two of which may end; or two of
\* controllers, one of which may end, and one of an asset that stays.
FewSessions ==
  \/ Sessions(AssetConn) <= 1 /\ Sessions(ControllerConn) <= 1
  \/ ~sendsLogout /\ Sessions(ControllerConn) <= 1 /\ Gone(Conn) <= 2
  \/ ~sendsLogout /\ Sessions(AssetConn) <= 1 /\ Gone(ControllerConn) <= 1 /\ AssetStays

\* Only clients like the repository's, which send no LOGOUT messages.
NoLogoutMessages == ~sendsLogout

\* What the liveness properties assume.
NotRaced == ~raced

\* One controller connects first, and is built at a certain address: which,
\* makes no difference.
FirstController == CHOOSE c \in ControllerConn : TRUE
FirstAddr == CHOOSE p \in Addr : TRUE
InOrder ==
  /\ pc[FirstController] = "new" => \A c \in ControllerConn : pc[c] = "new"
  /\ ctrl[FirstController].at \in {None, FirstAddr}

\* The asset connects before any controller, and the second one stays: keeps
\* the search for the counterexample of MCGpPairingLateLogout short.
SecondStays ==
  /\ \A c \in ControllerConn \ {FirstController} : conn[c] \in {"none", "open"}
  /\ (\E a \in AssetConn : pc[a] = "new") => pc[FirstController] = "new"
===============================================================================
