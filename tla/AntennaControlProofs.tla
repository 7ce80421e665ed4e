------------------------ MODULE AntennaControlProofs ------------------------
(***************************************************************************)
(* Proofs about AntennaControl, for every resolution of the angles, every  *)
(* place of the switches and every set of targets.                         *)
(***************************************************************************)
EXTENDS AntennaControl, TLAPS

\* The books agree with each other and with the antenna; every action needs
\* all four to keep them.
AntennaInv == TypeOK /\ BooksTrueOnceHomed /\ AzimuthKept /\ ElevationKept

\* The part of it that rotations write.
PointingInv ==
  /\ elevation_axis \in Bottom .. Top
  /\ vertical_enabled \in BOOLEAN
  /\ vertical_position \in Int
  /\ horizontal_position \in Int
  /\ last_vertical_limit \in {None, Top, Bottom}
  /\ azimuth \in -Half .. Half
  /\ elevation \in Int
  /\ azimuth_delta \in Int
  /\ elevation_delta = 0
  /\ homed \in BOOLEAN
  /\ shifted \in BOOLEAN
  /\ BooksTrueOnceHomed
  /\ AzimuthKept
  /\ ElevationKept

\* The rest.
ModeInv ==
  /\ up \in BOOLEAN
  /\ auto_control_mode \in BOOLEAN
  /\ target \in Directions
  /\ gps_filter \in {"none", "velocity", "primed"}
  /\ coord_system \in BOOLEAN
  /\ commands \in 0 .. MaxCommands

LEMMA Parts ==
  /\ AntennaInv <=> PointingInv /\ ModeInv
  /\ AntennaInv' <=> PointingInv' /\ ModeInv'
BY DEF AntennaInv, PointingInv, ModeInv, TypeOK

-----------------------------------------------------------------------------
(* Angles.                                                                 *)

LEMMA Division ==
  ASSUME NEW a \in Int, NEW b \in Nat \ {0}
  PROVE  /\ a \div b \in Int
         /\ b * (a \div b) \in Int
         /\ b * (a \div b) <= a
         /\ a < b * (a \div b) + b
BY SMT

LEMMA Opposite ==
  ASSUME NEW a \in Int, NEW b \in Int
  PROVE  a * (-b) = -(a * b)
BY SMT

LEMMA Monotone ==
  ASSUME NEW a \in Nat, NEW b \in Int, b >= 2
  PROVE  a * b >= 2 * a
BY SMT

LEMMA Distribute ==
  ASSUME NEW n \in Int, NEW a \in Int, NEW b \in Int, NEW c \in Int
  PROVE  n * (a - b + c) = n * a - n * b + n * c
BY SMT

\* A quotient between one and two.
LEMMA DivisionOne ==
  ASSUME NEW a \in Int, NEW b \in Nat \ {0}, b <= a, a < 2 * b
  PROVE  a \div b = 1
<1> DEFINE q == a \div b
<1>1. q \in Int /\ b * q \in Int /\ b * q <= a /\ a < b * q + b
  BY Division
<1>2. ~(q <= 0)
  <2> SUFFICES ASSUME q <= 0 PROVE FALSE
    OBVIOUS
  <2>1. b * q <= 0
    BY <1>1
  <2> QED
    BY <1>1, <2>1
<1>3. ~(q >= 2)
  <2> SUFFICES ASSUME q >= 2 PROVE FALSE
    OBVIOUS
  <2>1. b * q >= 2 * b
    BY <1>1
  <2> QED
    BY <1>1, <2>1
<1> QED
  BY <1>1, <1>2, <1>3

LEMMA Limits ==
  /\ Half \in Nat \ {0}
  /\ Full = 2 * Half
  /\ Full \in Nat \ {0}
  /\ MinRotation \in Nat \ {0}
  /\ Top \in Int /\ Bottom \in Int
  /\ Bottom < 0 /\ 0 < Top
  /\ Top <= Half /\ -Bottom <= Half
BY AntennaAssumption DEF Full

\* recount_angle takes full turns off until half a turn is left.
LEMMA RecountBounds ==
  ASSUME NEW x \in Int
  PROVE  /\ RecountAngle(x) \in -Half .. Half
         /\ \E k \in Int : RecountAngle(x) = x + Full * k
<1>1. CASE x < -Half
  <2> DEFINE q == (Half - x) \div Full
  <2>1. q \in Int /\ Full * q \in Int /\ Full * q <= Half - x
        /\ Half - x < Full * q + Full
    <3>1. Half - x \in Int /\ Full \in Nat \ {0}
      BY Limits
    <3> QED
      BY <3>1, Division, Zenon
  <2>2. RecountAngle(x) = x + Full * q
    BY <1>1 DEF RecountAngle
  <2> HIDE DEF q
  <2>3. RecountAngle(x) \in -Half .. Half
    <3> DEFINE turns == Full * q
    <3>1. turns \in Int /\ turns <= Half - x /\ Half - x < turns + Full
      BY <2>1
    <3>2. RecountAngle(x) = x + turns
      BY <2>2
    <3> HIDE DEF turns
    <3> QED
      BY <3>1, <3>2, Limits
  <2>4. \E k \in Int : RecountAngle(x) = x + Full * k
    BY <2>1, <2>2, Zenon
  <2> QED
    BY <2>3, <2>4
<1>2. CASE x > Half
  <2> DEFINE q == (x + Half) \div Full
  <2>1. q \in Int /\ Full * q \in Int /\ Full * q <= x + Half
        /\ x + Half < Full * q + Full
    <3>1. x + Half \in Int /\ Full \in Nat \ {0}
      BY Limits
    <3> QED
      BY <3>1, Division, Zenon
  <2>2. RecountAngle(x) = x - Full * q
    BY <1>2, Limits DEF RecountAngle
  <2> HIDE DEF q
  <2>3. Full * (-q) = -(Full * q) /\ -q \in Int
    BY <2>1, Limits, Opposite
  <2>4. RecountAngle(x) \in -Half .. Half
    <3> DEFINE turns == Full * q
    <3>1. turns \in Int /\ turns <= x + Half /\ x + Half < turns + Full
      BY <2>1
    <3>2. RecountAngle(x) = x - turns
      BY <2>2
    <3> HIDE DEF turns
    <3> QED
      BY <3>1, <3>2, Limits
  <2>5. RecountAngle(x) = x + Full * (-q)
    BY <2>1, <2>2, <2>3, Limits
  <2>6. \E k \in Int : RecountAngle(x) = x + Full * k
    BY <2>3, <2>5, Zenon
  <2> QED
    BY <2>4, <2>6
<1>3. CASE -Half <= x /\ x <= Half
  <2>1. RecountAngle(x) = x
    BY <1>3, Limits DEF RecountAngle
  <2>2. Full * 0 = 0
    BY Limits
  <2> QED
    BY <1>3, <2>1, <2>2, Limits
<1> QED
  BY <1>1, <1>2, <1>3, Limits

\* Within a full turn it takes off one turn at most.
LEMMA RecountWithin ==
  ASSUME NEW x \in -Full .. Full
  PROVE  RecountAngle(x) = IF x < -Half THEN x + Full
                           ELSE IF x > Half THEN x - Full ELSE x
<1>1. CASE x < -Half
  <2>1. (Half - x) \div Full = 1
    BY <1>1, Limits, DivisionOne
  <2> QED
    BY <1>1, <2>1, Limits DEF RecountAngle
<1>2. CASE x > Half
  <2>1. (x + Half) \div Full = 1
    BY <1>2, Limits, DivisionOne
  <2> QED
    BY <1>2, <2>1, Limits DEF RecountAngle
<1>3. CASE -Half <= x /\ x <= Half
  BY <1>3, Limits DEF RecountAngle
<1> QED
  BY <1>1, <1>2, <1>3, Limits

\* The result of a rotation of the elevation.
DriveStates == [axis : Bottom .. Top, position : Int,
                limit : {None, Top, Bottom}, homed : BOOLEAN]

True(d) == d.homed => d.position = d.axis

\* A rotation ends between the switches, and the books stay true.
LEMMA RotationKeeps ==
  ASSUME NEW d \in DriveStates, NEW angle \in Int
  PROVE  /\ VerticalRotation(d, angle) \in DriveStates
         /\ True(d) => True(VerticalRotation(d, angle))
<1>1. d.axis \in Bottom .. Top /\ d.position \in Int /\ d.homed \in BOOLEAN
  BY DEF DriveStates
<1>2. d.axis + Steps(d.axis, angle) \in Bottom .. Top
      /\ Steps(d.axis, angle) \in Int
  BY <1>1, Limits DEF Steps
<1>3. LimitMet(d.axis, angle) \in {None, Top, Bottom}
  BY DEF LimitMet
<1>4. VerticalRotation(d, angle) \in DriveStates
  BY <1>1, <1>2, <1>3, Limits, AntennaAssumption
  DEF VerticalRotation, DriveStates
<1>5. LimitMet(d.axis, angle) # None =>
        LimitMet(d.axis, angle) = d.axis + Steps(d.axis, angle)
  BY <1>1, Limits DEF LimitMet, Steps
<1>6. True(d) => True(VerticalRotation(d, angle))
  BY <1>1, <1>2, <1>3, <1>5 DEF VerticalRotation, True
<1> QED
  BY <1>4, <1>6

\* The elevation turned by one command, and the books it starts from.
Turned(el) == IF Enough(el) THEN VerticalRotation(Drive, el) ELSE Drive

LEMMA DriveIsTrue ==
  ASSUME PointingInv
  PROVE  Drive \in DriveStates /\ True(Drive)
BY DEF PointingInv, Drive, DriveStates, True, BooksTrueOnceHomed

LEMMA TurnedIsTrue ==
  ASSUME PointingInv, NEW el \in Int
  PROVE  Turned(el) \in DriveStates /\ True(Turned(el))
BY DriveIsTrue, RotationKeeps DEF Turned

\* What it means that the drive ends in the state d.
LEMMA DriveSet ==
  ASSUME NEW d \in DriveStates, True(d), SetDrive(d)
  PROVE  /\ elevation_axis' \in Bottom .. Top
         /\ vertical_position' \in Int
         /\ last_vertical_limit' \in {None, Top, Bottom}
         /\ homed' \in BOOLEAN
         /\ BooksTrueOnceHomed'
BY DEF DriveStates, True, SetDrive, BooksTrueOnceHomed

LEMMA SoftKeeps ==
  ASSUME PointingInv, NEW az \in Int, NEW el \in Int, RotateSoft(az, el)
  PROVE  PointingInv'
<1>1. SetDrive(Turned(el))
  BY DEF RotateSoft, Turned
<1>2. /\ elevation_axis' \in Bottom .. Top
      /\ vertical_position' \in Int
      /\ last_vertical_limit' \in {None, Top, Bottom}
      /\ homed' \in BOOLEAN
      /\ BooksTrueOnceHomed'
  BY <1>1, TurnedIsTrue, DriveSet
<1>3. /\ azimuth' \in -Half .. Half
      /\ horizontal_position' \in Int
      /\ AzimuthKept'
  <2>1. CASE Enough(az)
    <3>1. /\ horizontal_position' = horizontal_position + az
          /\ azimuth' = RecountAngle(horizontal_position + az + azimuth_delta)
          /\ azimuth_delta' = azimuth_delta
      BY <2>1 DEF RotateSoft
    <3>2. horizontal_position + az + azimuth_delta \in Int
      BY DEF PointingInv
    <3> QED
      BY <3>1, <3>2, RecountBounds DEF PointingInv, AzimuthKept
  <2>2. CASE ~Enough(az)
    BY <2>2 DEF RotateSoft, PointingInv, AzimuthKept, RecountAngle
  <2> QED
    BY <2>1, <2>2
<1>4. elevation' \in Int /\ shifted' \in BOOLEAN /\ ElevationKept'
  <2>1. CASE Enough(el)
    <3>1. /\ elevation' = RecountAngle(vertical_position' + elevation_delta')
          /\ elevation_delta' = 0
      BY <2>1, <1>1 DEF RotateSoft, Turned, SetDrive, PointingInv
    <3>2. vertical_position' + elevation_delta' \in Int
      BY <1>2, <3>1
    <3>3. shifted' = FALSE
      BY <2>1 DEF RotateSoft
    <3>4. RecountAngle(vertical_position' + elevation_delta') \in -Half .. Half
      BY <3>2, RecountBounds
    <3>5. elevation' \in Int
      BY <3>1, <3>4, Limits
    <3> QED
      BY <3>1, <3>3, <3>5 DEF ElevationKept
  <2>2. CASE ~Enough(el)
    <3>1. UNCHANGED <<elevation, vertical_position, elevation_delta>>
      BY <2>2, <1>1 DEF RotateSoft, Turned, SetDrive, Drive
    <3>2. shifted' = shifted
      BY <2>2 DEF RotateSoft, PointingInv
    <3> QED
      BY <3>1, <3>2 DEF PointingInv, ElevationKept, RecountAngle
  <2> QED
    BY <2>1, <2>2
<1>5. /\ vertical_enabled' \in BOOLEAN
      /\ azimuth_delta' \in Int
      /\ elevation_delta' = 0
  BY DEF RotateSoft, PointingInv
<1> QED
  BY <1>2, <1>3, <1>4, <1>5 DEF PointingInv

LEMMA HardKeeps ==
  ASSUME PointingInv, NEW az \in Int, NEW el \in Int, RotateHard(az, el)
  PROVE  PointingInv'
<1>1. SetDrive(Turned(el))
  BY DEF RotateHard, Turned
<1>2. /\ elevation_axis' \in Bottom .. Top
      /\ vertical_position' \in Int
      /\ last_vertical_limit' \in {None, Top, Bottom}
      /\ homed' \in BOOLEAN
      /\ BooksTrueOnceHomed'
  BY <1>1, TurnedIsTrue, DriveSet
<1>3. /\ azimuth' = azimuth
      /\ horizontal_position' \in Int
      /\ azimuth_delta' \in Int
      /\ horizontal_position' + azimuth_delta'
           = horizontal_position + azimuth_delta
  BY DEF RotateHard, PointingInv
<1>4. azimuth' \in -Half .. Half /\ AzimuthKept'
  BY <1>3 DEF PointingInv, AzimuthKept, RecountAngle
<1>5. elevation' \in Int /\ shifted' \in BOOLEAN /\ ElevationKept'
  <2>1. CASE Enough(el)
    <3>1. elevation' = elevation - (Turned(el).axis - elevation_axis)
      BY <2>1 DEF RotateHard, Turned
    <3>2. Turned(el).axis \in Bottom .. Top
      BY TurnedIsTrue DEF DriveStates
    <3>3. shifted' = TRUE
      BY <2>1 DEF RotateHard
    <3> QED
      BY <3>1, <3>2, <3>3, Limits DEF PointingInv, ElevationKept
  <2>2. CASE ~Enough(el)
    <3>1. UNCHANGED <<elevation, vertical_position, elevation_delta>>
      BY <2>2, <1>1 DEF RotateHard, Turned, SetDrive, Drive
    <3>2. shifted' = shifted
      BY <2>2 DEF RotateHard, PointingInv
    <3> QED
      BY <3>1, <3>2 DEF PointingInv, ElevationKept, RecountAngle
  <2> QED
    BY <2>1, <2>2
<1>6. vertical_enabled' \in BOOLEAN /\ elevation_delta' = 0
  BY DEF RotateHard, PointingInv
<1> QED
  BY <1>2, <1>3, <1>4, <1>5, <1>6 DEF PointingInv

\* The way to a target: at most half a turn.
LEMMA WayShort ==
  ASSUME NEW x \in -Full .. Full
  PROVE  ShortestWay(x) \in -Half .. Half
BY Limits DEF ShortestWay

LEMMA AimKeeps ==
  ASSUME PointingInv, NEW t \in Directions, Aim(t)
  PROVE  PointingInv'
<1>1. t[1] \in -Half .. Half /\ t[2] \in -Half .. Half
  BY DEF Directions
<1>2. t[1] - azimuth \in -Full .. Full /\ t[2] - elevation \in Int
  BY <1>1, Limits DEF PointingInv
<1>3. ShortestWay(t[1] - azimuth) \in Int
  BY <1>2, WayShort, Limits
<1> QED
  BY <1>2, <1>3, SoftKeeps DEF Aim

\* Two angles a number of full turns apart are the same direction.
LEMMA WholeTurns ==
  ASSUME NEW k \in Int, Full * k \in -Full .. Full
  PROVE  RecountAngle(Full * k) = 0
<1>1. k \in {-1, 0, 1}
  <2>1. k >= 2 => Full * k >= 2 * Full
    BY Limits, Monotone
  <2>2. k <= -2 => Full * k <= -(2 * Full)
    <3> SUFFICES ASSUME k <= -2 PROVE Full * k <= -(2 * Full)
      OBVIOUS
    <3>1. Full * (-k) >= 2 * Full
      BY Limits, Monotone
    <3>2. Full * (-k) = -(Full * k)
      BY Limits, Opposite
    <3>3. Full * k \in Int
      BY Limits
    <3> QED
      BY <3>1, <3>2, <3>3, Limits
  <2> QED
    BY <2>1, <2>2, Limits
<1>2. Full * k \in {-Full, 0, Full}
  BY <1>1, Limits
<1> QED
  BY <1>2, RecountWithin, Limits

\* The rest of the way to a target, seen from the antenna and from the target.
LEMMA WayBack ==
  ASSUME NEW x \in -Full .. Full
  PROVE  Abs(RecountAngle(-x)) = Abs(ShortestWay(x))
<1>1. -x \in -Full .. Full
  BY Limits
<1>2. RecountAngle(-x) = IF -x < -Half THEN -x + Full
                         ELSE IF -x > Half THEN -x - Full ELSE -x
  BY <1>1, RecountWithin
<1> QED
  BY <1>2, Limits DEF Abs, ShortestWay

LEMMA AimArrives ==
  ASSUME PointingInv, NEW t \in Directions, Aim(t)
  PROVE  /\ Abs(horizontal_position' - horizontal_position) <= Half
         /\ Apart(azimuth', t[1]) < MinRotation
<1> DEFINE way   == ShortestWay(t[1] - azimuth)
           drive == horizontal_position + azimuth_delta
<1>1. /\ t[1] \in -Half .. Half
      /\ azimuth \in -Half .. Half
      /\ horizontal_position \in Int
      /\ drive \in Int
      /\ azimuth = RecountAngle(drive)
  BY DEF Directions, PointingInv, AzimuthKept
<1>2. t[1] - azimuth \in -Full .. Full
  BY <1>1, Limits
<1>3. way \in -Half .. Half
  BY <1>2, WayShort
<1>4. CASE Enough(way)
  <2>1. /\ horizontal_position' = horizontal_position + way
        /\ azimuth' = RecountAngle(horizontal_position + way + azimuth_delta)
    BY <1>4 DEF Aim, RotateSoft
  <2>2. horizontal_position + way + azimuth_delta = drive + way
    BY <1>1, <1>3, Limits DEF PointingInv
  <2> HIDE DEF drive
  <2>3. PICK before \in Int : azimuth = drive + Full * before
    BY <1>1, RecountBounds
  <2>4. drive + way \in Int
    BY <1>1, <1>3, Limits
  <2>5. azimuth' = RecountAngle(drive + way)
    BY <2>1, <2>2
  <2>6. azimuth' \in -Half .. Half
    BY <2>4, <2>5, RecountBounds
  <2>7. PICK after \in Int : azimuth' = drive + way + Full * after
    BY <2>4, <2>5, RecountBounds
  <2>8. PICK turn \in {-1, 0, 1} : way = t[1] - azimuth + Full * turn
    BY <1>1, Limits DEF ShortestWay
  <2> HIDE DEF way
  <2>9. azimuth' - t[1] = Full * (after - before + turn)
    <3>1. Full * (after - before + turn)
            = Full * after - Full * before + Full * turn
      BY Limits, Distribute
    <3>2. Full * after \in Int /\ Full * before \in Int /\ Full * turn \in Int
      BY Limits
    <3> QED
      BY <1>1, <1>3, <2>3, <2>6, <2>7, <2>8, <3>1, <3>2, Limits
  <2>10. azimuth' - t[1] \in -Full .. Full
    BY <1>1, <2>6, Limits
  <2>11. RecountAngle(azimuth' - t[1]) = 0
    BY <2>9, <2>10, WholeTurns
  <2>12. Apart(azimuth', t[1]) < MinRotation
    BY <2>11, Limits DEF Apart, Abs
  <2>13. Abs(horizontal_position' - horizontal_position) <= Half
    BY <1>1, <1>3, <2>1, Limits DEF Abs
  <2> QED
    BY <2>12, <2>13
<1>5. CASE ~Enough(way)
  <2>1. azimuth' = azimuth /\ horizontal_position' = horizontal_position
    BY <1>5 DEF Aim, RotateSoft
  <2>2. Abs(way) < MinRotation
    BY <1>3, <1>5, Limits DEF Enough, Abs
  <2>3. azimuth - t[1] = -(t[1] - azimuth)
    BY <1>1, Limits
  <2>4. Apart(azimuth, t[1]) < MinRotation
    BY <1>2, <2>2, <2>3, WayBack DEF Apart
  <2> QED
    BY <1>1, <2>1, <2>4, Limits DEF Abs
<1> QED
  BY <1>4, <1>5

\* The command finds the lower switch and goes back by its angle.
LEMMA ZeroedIsZero ==
  ASSUME PointingInv
  PROVE  /\ Zeroed.axis = 0
         /\ Zeroed.position = 0
         /\ Zeroed \in DriveStates
         /\ True(Zeroed)
<1> DEFINE down == VerticalRotation(Drive, -Full)
<1>1. Drive \in DriveStates /\ Drive.axis = elevation_axis
  BY DriveIsTrue DEF Drive
<1>2. elevation_axis \in Bottom .. Top /\ Top - Bottom < Full
  BY AntennaAssumption DEF PointingInv
<1>3. LimitMet(elevation_axis, -Full) = Bottom
      /\ Steps(elevation_axis, -Full) = Bottom - elevation_axis
  BY <1>2, Limits DEF LimitMet, Steps
<1>4. Bottom # None
  BY AntennaAssumption
<1>5. down.axis = Bottom /\ down.position = Bottom /\ down.limit = Bottom
  <2>1. /\ down.axis = Drive.axis + Steps(Drive.axis, -Full)
        /\ down.position = IF LimitMet(Drive.axis, -Full) # None
                           THEN LimitMet(Drive.axis, -Full)
                           ELSE Drive.position + Steps(Drive.axis, -Full)
        /\ down.limit = LimitMet(Drive.axis, -Full)
    BY DEF VerticalRotation
  <2> HIDE DEF down
  <2> QED
    BY <1>1, <1>2, <1>3, <1>4, <2>1, Limits
<1>6. down \in DriveStates /\ True(down)
  BY <1>1, DriveIsTrue, RotationKeeps, Limits
<1>7. Zeroed = VerticalRotation(down, -Bottom)
  BY <1>4, <1>5 DEF Zeroed
<1>8. Zeroed \in DriveStates /\ True(Zeroed)
  BY <1>6, <1>7, RotationKeeps, Limits
<1>9. LimitMet(Bottom, -Bottom) = None /\ Steps(Bottom, -Bottom) = -Bottom
  BY Limits DEF LimitMet, Steps
<1> HIDE DEF down
<1>10. Zeroed.axis = 0 /\ Zeroed.position = 0
  BY <1>5, <1>7, <1>9, Limits DEF VerticalRotation
<1> QED
  BY <1>8, <1>10

LEMMA ZeroKeeps ==
  ASSUME PointingInv, SetupElevationZero
  PROVE  /\ PointingInv'
         /\ elevation_axis' = 0
         /\ vertical_position' = 0
         /\ elevation' = 0
<1>1. SetDrive(Zeroed)
  BY DEF SetupElevationZero
<1>2. /\ elevation_axis' \in Bottom .. Top
      /\ vertical_position' \in Int
      /\ last_vertical_limit' \in {None, Top, Bottom}
      /\ homed' \in BOOLEAN
      /\ BooksTrueOnceHomed'
  BY <1>1, ZeroedIsZero, DriveSet
<1>3. elevation_axis' = 0 /\ vertical_position' = 0
  BY <1>1, ZeroedIsZero DEF SetDrive
<1>4. RecountAngle(0) = 0
  BY Limits DEF RecountAngle
<1>5. elevation' = 0 /\ elevation_delta' = 0
  BY <1>4, ZeroedIsZero DEF SetupElevationZero, PointingInv
<1>6. /\ UNCHANGED <<azimuth, horizontal_position, azimuth_delta>>
      /\ shifted' = FALSE
      /\ vertical_enabled' = TRUE
  BY DEF SetupElevationZero
<1>7. AzimuthKept' /\ ElevationKept'
  BY <1>3, <1>4, <1>5, <1>6
  DEF PointingInv, AzimuthKept, ElevationKept, RecountAngle
<1> QED
  BY <1>2, <1>3, <1>5, <1>6, <1>7 DEF PointingInv

-----------------------------------------------------------------------------
(* The steps.                                                              *)

LEMMA AntennaInit == Init => AntennaInv
<1> SUFFICES ASSUME Init PROVE AntennaInv
  OBVIOUS
<1>1. RecountAngle(0) = 0
  BY Limits DEF RecountAngle
<1>2. 0 \in -Half .. Half /\ 0 + 0 = 0
  BY Limits
<1>3. BooksTrueOnceHomed /\ AzimuthKept /\ ElevationKept
  BY <1>1, <1>2 DEF Init, BooksTrueOnceHomed, AzimuthKept, ElevationKept
<1>4. PointingInv
  <2>1. /\ elevation_axis \in Bottom .. Top
        /\ vertical_position \in Int
        /\ horizontal_position \in Int
        /\ azimuth \in -Half .. Half
        /\ elevation \in Int
        /\ azimuth_delta \in Int
        /\ elevation_delta = 0
    BY <1>2 DEF Init
  <2>2. /\ vertical_enabled \in BOOLEAN
        /\ last_vertical_limit \in {None, Top, Bottom}
        /\ homed \in BOOLEAN
        /\ shifted \in BOOLEAN
    BY DEF Init
  <2> QED
    BY <1>3, <2>1, <2>2 DEF PointingInv
<1>5. commands \in 0 .. MaxCommands
  BY AntennaAssumption DEF Init
<1>6. ModeInv
  <2>1. <<0, 0>> \in Directions
    BY <1>2 DEF Directions
  <2> QED
    BY <1>5, <2>1 DEF Init, ModeInv
<1> QED
  BY <1>4, <1>6, Parts

\* Nothing that points the antenna changes.
LEMMA PointingStays ==
  ASSUME PointingInv, UNCHANGED <<driveVars, pointVars>>
  PROVE  PointingInv'
BY DEF PointingInv, driveVars, pointVars, BooksTrueOnceHomed, AzimuthKept,
       ElevationKept, RecountAngle

LEMMA CommandCounts ==
  ASSUME ModeInv, Command
  PROVE  commands' \in 0 .. MaxCommands /\ up' \in BOOLEAN /\ target' = target
BY AntennaAssumption DEF ModeInv, Command

LEMMA OperatorKeeps ==
  ASSUME PointingInv, ModeInv, Operator
  PROVE  PointingInv' /\ ModeInv'
<1>1. ASSUME NEW mode \in BOOLEAN, AutomaticControl(mode)
      PROVE  PointingInv' /\ ModeInv'
  BY <1>1, PointingStays, CommandCounts DEF AutomaticControl, ModeInv
<1>2. ASSUME NEW mode \in BOOLEAN, MotorsEnableMode(mode)
      PROVE  PointingInv' /\ ModeInv'
  <2>1. PointingInv'
    BY <1>2
    DEF MotorsEnableMode, PointingInv, pointVars, BooksTrueOnceHomed,
        AzimuthKept, ElevationKept, RecountAngle
  <2>2. ModeInv'
    BY <1>2, CommandCounts DEF MotorsEnableMode, ModeInv, modeVars
  <2> QED
    BY <2>1, <2>2
<1>3. ASSUME NEW az \in Angles, NEW el \in Angles,
             SoftManualControl(az, el) \/ HardManualControl(az, el)
      PROVE  PointingInv' /\ ModeInv'
  <2>1. az \in Int /\ el \in Int
    BY AntennaAssumption
  <2>2. PointingInv'
    BY <1>3, <2>1, SoftKeeps, HardKeeps
    DEF SoftManualControl, HardManualControl
  <2>3. ModeInv'
    BY <1>3, CommandCounts
    DEF SoftManualControl, HardManualControl, ModeInv, modeVars
  <2> QED
    BY <2>2, <2>3
<1>4. ASSUME SetupElevationZero PROVE PointingInv' /\ ModeInv'
  BY <1>4, ZeroKeeps, CommandCounts DEF SetupElevationZero, ModeInv, modeVars
<1>5. ASSUME TargetToNorth PROVE PointingInv' /\ ModeInv'
  <2>1. PointingInv'
    BY <1>5, AimKeeps, AntennaAssumption DEF TargetToNorth
  <2>2. ModeInv'
    BY <1>5, CommandCounts DEF TargetToNorth, ModeInv, modeVars
  <2> QED
    BY <2>1, <2>2
<1>6. ASSUME SetupCoordSystem PROVE PointingInv' /\ ModeInv'
  BY <1>6, PointingStays, CommandCounts DEF SetupCoordSystem, ModeInv
<1>7. ASSUME NEW filter \in {"none", "velocity"}, SetupGpsFilter(filter)
      PROVE  PointingInv' /\ ModeInv'
  BY <1>7, PointingStays, CommandCounts DEF SetupGpsFilter, ModeInv
<1> QED
  BY <1>1, <1>2, <1>3, <1>4, <1>5, <1>6, <1>7 DEF Operator

LEMMA GpsFixKeeps ==
  ASSUME PointingInv, ModeInv, GpsFix
  PROVE  PointingInv' /\ ModeInv'
<1>1. ASSUME FixSwallowed PROVE PointingInv' /\ ModeInv'
  BY <1>1, PointingStays DEF FixSwallowed, ModeInv
<1>2. ASSUME FixKills PROVE PointingInv' /\ ModeInv'
  BY <1>2, PointingStays DEF FixKills, ModeInv, modeVars
<1>3. ASSUME NEW t \in Targets, FixTaken(t) PROVE PointingInv' /\ ModeInv'
  <2>1. t \in Directions
    BY AntennaAssumption
  <2>2. PointingInv'
    BY <1>3, <2>1, AimKeeps, PointingStays DEF FixTaken
  <2>3. ModeInv'
    BY <1>3, <2>1 DEF FixTaken, ModeInv, modeVars
  <2> QED
    BY <2>2, <2>3
<1> QED
  BY <1>1, <1>2, <1>3 DEF GpsFix

LEMMA AntennaStep == AntennaInv /\ [Next]_vars => AntennaInv'
<1> SUFFICES ASSUME PointingInv, ModeInv, [Next]_vars
             PROVE  PointingInv' /\ ModeInv'
  BY Parts
<1>1. CASE Operator
  BY <1>1, OperatorKeeps
<1>2. CASE GpsFix
  BY <1>2, GpsFixKeeps
<1>3. CASE Crash
  <2>1. PointingInv'
    BY <1>3, PointingStays DEF Crash
  <2>2. commands' \in 0 .. MaxCommands
    BY <1>3, AntennaAssumption DEF Crash, ModeInv
  <2>3. ModeInv'
    BY <1>3, <2>2 DEF Crash, ModeInv, modeVars
  <2> QED
    BY <2>1, <2>3
<1>4. CASE Restart
  <2>1. RecountAngle(0) = 0
    BY Limits DEF RecountAngle
  <2>2. elevation_axis' = elevation_axis
    BY <1>4 DEF Restart
  <2>3. 0 \in -Half .. Half /\ 0 + 0 = 0
    BY Limits
  <2>4. BooksTrueOnceHomed' /\ AzimuthKept' /\ ElevationKept'
    BY <1>4, <2>1, <2>3
    DEF Restart, Start, BooksTrueOnceHomed, AzimuthKept, ElevationKept,
        RecountAngle
  <2>5. PointingInv'
    <3>1. /\ elevation_axis' \in Bottom .. Top
          /\ vertical_position' \in Int
          /\ horizontal_position' \in Int
          /\ azimuth' \in -Half .. Half
          /\ elevation' \in Int
          /\ azimuth_delta' \in Int
          /\ elevation_delta' = 0
      BY <1>4, <2>2, <2>3 DEF Restart, Start, PointingInv
    <3>2. /\ vertical_enabled' \in BOOLEAN
          /\ last_vertical_limit' \in {None, Top, Bottom}
          /\ homed' \in BOOLEAN
          /\ shifted' \in BOOLEAN
      BY <1>4 DEF Restart, Start
    <3> QED
      BY <2>4, <3>1, <3>2 DEF PointingInv
  <2>6. ModeInv'
    <3>1. <<0, 0>> \in Directions
      BY <2>3 DEF Directions
    <3> QED
      BY <1>4, <3>1 DEF Restart, Start, ModeInv
  <2> QED
    BY <2>5, <2>6
<1>5. CASE MovedByHand
  <2>1. PointingInv'
    BY <1>5
    DEF MovedByHand, PointingInv, pointVars, BooksTrueOnceHomed, AzimuthKept,
        ElevationKept, RecountAngle
  <2>2. ModeInv'
    BY <1>5, AntennaAssumption DEF MovedByHand, ModeInv, modeVars
  <2> QED
    BY <2>1, <2>2
<1>6. CASE UNCHANGED vars
  BY <1>6, PointingStays DEF vars, ModeInv, modeVars
<1> QED
  BY <1>1, <1>2, <1>3, <1>4, <1>5, <1>6 DEF Next

-----------------------------------------------------------------------------
(* Theorems.                                                               *)

\* The antenna stays between its switches and the shown azimuth within half a
\* turn, whatever is commanded (control_interface.py:77-141, 221-226).
THEOREM TypeCorrect == Spec => []TypeOK
<1>1. AntennaInv => TypeOK
  BY DEF AntennaInv
<1> QED
  BY AntennaInit, AntennaStep, <1>1, PTL DEF Spec

\* Once a switch was met, the drive's books are the truth
\* (drive_control.py:104-115).
THEOREM BooksTrue == Spec => []BooksTrueOnceHomed
<1>1. AntennaInv => BooksTrueOnceHomed
  BY DEF AntennaInv
<1> QED
  BY AntennaInit, AntennaStep, <1>1, PTL DEF Spec

\* The shown azimuth follows the drive through soft and hard rotations
\* (control_interface.py:228-240).
THEOREM AzimuthTrue == Spec => []AzimuthKept
<1>1. AntennaInv => AzimuthKept
  BY DEF AntennaInv
<1> QED
  BY AntennaInit, AntennaStep, <1>1, PTL DEF Spec

\* The shown elevation follows the drive except after a hard rotation
\* (control_interface.py:234, 242).
THEOREM ElevationTrue == Spec => []ElevationKept
<1>1. AntennaInv => ElevationKept
  BY DEF AntennaInv
<1> QED
  BY AntennaInit, AntennaStep, <1>1, PTL DEF Spec

\* The command finds the zero of the elevation from any state
\* (control_interface.py:192-196).
THEOREM ZeroTrue == Spec => ZeroIsFound
<1>1. AntennaInv /\ SetupElevationZero =>
        elevation_axis' = 0 /\ vertical_position' = 0 /\ elevation' = 0
  BY Parts, ZeroKeeps
<1> QED
  BY AntennaInit, AntennaStep, <1>1, PTL DEF Spec, ZeroIsFound

\* Aiming takes the shorter way round and arrives, after any history of
\* commands (control_interface.py:210-233).
THEOREM AimTrue == Spec => AimsTheShortestWay
<1>1. AntennaInv /\ [Next]_vars =>
        \A t \in Targets :
          FixTaken(t) /\ coord_system /\ auto_control_mode =>
            /\ Abs(horizontal_position' - horizontal_position) <= Half
            /\ Apart(azimuth', t[1]) < MinRotation
  <2> SUFFICES ASSUME AntennaInv, NEW t \in Targets, FixTaken(t),
                      coord_system, auto_control_mode
               PROVE  /\ Abs(horizontal_position' - horizontal_position) <= Half
                      /\ Apart(azimuth', t[1]) < MinRotation
    OBVIOUS
  <2>1. PointingInv /\ t \in Directions
    BY Parts, AntennaAssumption
  <2>2. Aim(t)
    BY DEF FixTaken
  <2> QED
    BY <2>1, <2>2, AimArrives
<1> QED
  BY AntennaInit, AntennaStep, <1>1, PTL DEF Spec, AimsTheShortestWay

=============================================================================
