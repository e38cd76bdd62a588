--------------------------- MODULE OfficialCurve ---------------------------
(***************************************************************************)
(* What the service promises about the official rating curves of a         *)
(* station, with no mention of how a case gets there: every station has    *)
(* one sequence of official versions, each in force from a later instant   *)
(* than the one before it; a version is never published twice; a           *)
(* certification case can be sealed once its curve is the latest official  *)
(* one, and a sealed case is never published again.                        *)
(***************************************************************************)
EXTENDS Naturals, Sequences

CONSTANTS Case,        \* certification cases
          Station,     \* gauging stations
          StationOf,   \* the station a case belongs to
          VersionOf,   \* the candidate version a case certifies
          Instant      \* instants a curve can come into force

VARIABLES official,    \* the official versions of a station, oldest first
          sealed       \* the cases whose archive has been sealed

curveVars == <<official, sealed>>

OfficialEntry == [case : Case, version : {VersionOf[c] : c \in Case}, from : Instant]

CurveTypeOK ==
  /\ official \in [Station -> Seq(OfficialEntry)]
  /\ sealed \subseteq Case

CurveInit ==
  /\ official = [s \in Station |-> <<>>]
  /\ sealed = {}

\* The curve of case c becomes official at its station from instant t on.
Publish(c, t) ==
  LET s == StationOf[c] IN
  /\ c \notin sealed
  /\ \A i \in DOMAIN official[s] :
        /\ official[s][i].version # VersionOf[c]
        /\ official[s][i].from < t
  /\ official' = [official EXCEPT ![s] =
                    Append(@, [case |-> c, version |-> VersionOf[c], from |-> t])]
  /\ UNCHANGED sealed

\* The case whose curve is the latest official one of its station is sealed.
Seal(c) ==
  LET chain == official[StationOf[c]] IN
  /\ c \notin sealed
  /\ chain # <<>>
  /\ chain[Len(chain)].case = c
  /\ sealed' = sealed \cup {c}
  /\ UNCHANGED official

CurveNext == \E c \in Case : Seal(c) \/ \E t \in Instant : Publish(c, t)

CurveSpec == CurveInit /\ [][CurveNext]_curveVars
=============================================================================
