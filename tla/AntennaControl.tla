--------------------------- MODULE AntennaControl ---------------------------
(***************************************************************************)
(* The antenna's drives and the process that turns them                    *)
(* (src/rpi/antenna-automatic-control-system): commands of an operator and *)
(* positions of the target come from the bus, one message is handled as a  *)
(* whole.  The process does not see the antenna, it keeps books: what it   *)
(* believes of both axes, corrected when the elevation meets a limit       *)
(* switch.                                                                 *)
(*                                                                         *)
(* Angles are integers: multiples of a motor step.  The mathematics that   *)
(* turns a position into two angles is left out; a fix of the target       *)
(* brings the angles.                                                      *)
(***************************************************************************)
EXTENDS Integers

CONSTANTS
  Half,          \* 180 degrees
  Top, Bottom,   \* VSM_POS_LIMIT_PINS_MAP, VSM_NEG_LIMIT_PINS_MAP
  MinRotation,   \* MIN_ROTATION_ANGLE
  Angles,        \* the angles an operator asks to turn by
  Targets,       \* pairs of angles: directions a target may be in
  North,         \* one more direction
  None,          \* no limit switch
  MaxCommands    \* bound on commands, restarts and moves by hand

Full == 2 * Half

Directions == (-Half .. Half) \X (-Half .. Half)

ASSUME AntennaAssumption ==
  /\ Half \in Nat
  /\ MinRotation \in Nat \ {0}
  /\ Top \in Int /\ Bottom \in Int
  /\ MinRotation <= Top /\ Top <= Half
  /\ MinRotation <= -Bottom /\ -Bottom <= Half
  /\ Top - Bottom < Full
  /\ Angles \subseteq Int
  /\ Targets \subseteq Directions
  /\ North \in Directions
  /\ None \notin Int
  /\ MaxCommands \in Nat

VARIABLES
  up,                    \* the process runs
  elevation_axis,        \* where the antenna is: the process does not see it
  vertical_enabled,      \* the enable line of the elevation's motor
  vertical_position, horizontal_position,    \* the books of the drive
  last_vertical_limit,                       \* Top, Bottom or None
  azimuth, elevation,                        \* the books of the interface
  azimuth_delta, elevation_delta,
  auto_control_mode,
  target,                                    \* target_alpha, target_phi
  gps_filter,            \* "none", "velocity", or "primed": it had a fix
  coord_system,          \* coord_system_sucsess_flag
  commands               \* how many commands, restarts, moves by hand

\* History only.
VARIABLES
  homed,                 \* a limit was met, and the axis not moved by hand
  shifted                \* a hard rotation changed elevation alone

driveVars  == <<elevation_axis, vertical_enabled, vertical_position,
                horizontal_position, last_vertical_limit, homed>>
pointVars  == <<azimuth, elevation, azimuth_delta, elevation_delta, shifted>>
modeVars   == <<auto_control_mode, gps_filter, coord_system>>
vars == <<up, driveVars, pointVars, modeVars, target, commands>>

Abs(x) == IF x < 0 THEN -x ELSE x

\* What the constructors set, and the outcome of the preparation in main.
Start ==
  /\ up' = TRUE
  /\ vertical_enabled' = FALSE
  /\ vertical_position' = 0
  /\ horizontal_position' = 0
  /\ last_vertical_limit' = None
  /\ azimuth' = 0
  /\ elevation' = 0
  /\ azimuth_delta' = 0
  /\ elevation_delta' = 0
  /\ auto_control_mode' = FALSE
  /\ target' = <<0, 0>>
  /\ gps_filter' = "none"
  /\ coord_system' \in BOOLEAN
  /\ homed' = FALSE
  /\ shifted' = FALSE

Init ==
  /\ up = TRUE
  /\ elevation_axis \in Bottom .. Top
  /\ vertical_enabled = FALSE
  /\ vertical_position = 0
  /\ horizontal_position = 0
  /\ last_vertical_limit = None
  /\ azimuth = 0
  /\ elevation = 0
  /\ azimuth_delta = 0
  /\ elevation_delta = 0
  /\ auto_control_mode = FALSE
  /\ target = <<0, 0>>
  /\ gps_filter = "none"
  /\ coord_system \in BOOLEAN
  /\ commands = 0
  /\ homed = FALSE
  /\ shifted = FALSE

-----------------------------------------------------------------------------
(* The drives.  A rotation is described by a record of what it leads to;   *)
(* rotations follow each other inside one command.                         *)

Drive == [axis |-> elevation_axis, position |-> vertical_position,
          limit |-> last_vertical_limit, homed |-> homed]

\* Mutant: the switches of the other direction are looked at.
StepsOtherWay(axis, angle) ==
  IF angle > 0
  THEN IF axis = Bottom THEN 0 ELSE angle
  ELSE IF axis = Top THEN 0 ELSE angle

\* rotate_using_steps: the switch of the direction is read before each pulse.
Steps(axis, angle) ==
  IF angle > 0
  THEN IF axis + angle > Top THEN Top - axis ELSE angle
  ELSE IF axis + angle < Bottom THEN Bottom - axis ELSE angle

\* The pin that stopped it, here by the angle the pin stands for.
LimitMet(axis, angle) ==
  IF axis + angle > Top THEN Top
  ELSE IF axis + angle < Bottom THEN Bottom ELSE None

\* Mutant: the steps are added to the books, whatever stopped them.
VerticalRotationCounts(d, angle) ==
  LET limit == LimitMet(d.axis, angle) IN
  [axis |-> d.axis + Steps(d.axis, angle),
   position |-> d.position + Steps(d.axis, angle),
   limit |-> limit,
   homed |-> d.homed \/ limit # None]

\* Mutant: the last limit is kept until the next one is met.
VerticalRotationKeepsLimit(d, angle) ==
  LET limit == LimitMet(d.axis, angle) IN
  [axis |-> d.axis + Steps(d.axis, angle),
   position |-> IF limit # None THEN limit
                ELSE IF d.limit # None THEN d.limit
                ELSE d.position + Steps(d.axis, angle),
   limit |-> IF limit # None THEN limit ELSE d.limit,
   homed |-> d.homed \/ limit # None]

VerticalRotation(d, angle) ==
  LET limit == LimitMet(d.axis, angle) IN
  [axis |-> d.axis + Steps(d.axis, angle),
   position |-> IF limit # None THEN limit
                ELSE d.position + Steps(d.axis, angle),
   limit |-> limit,
   homed |-> d.homed \/ limit # None]

SetDrive(d) ==
  /\ elevation_axis' = d.axis
  /\ vertical_position' = d.position
  /\ last_vertical_limit' = d.limit
  /\ homed' = d.homed

\* A smaller angle does not turn an axis.
Enough(angle) == Abs(angle) >= MinRotation

-----------------------------------------------------------------------------
(* The interface.                                                          *)

\* Mutant: full turns are taken off one by one, and only one.
RecountOnce(angle) ==
  IF angle < -Half THEN angle + Full
  ELSE IF angle > Half THEN angle - Full ELSE angle

RecountAngle(angle) ==
  IF angle < -Half THEN angle + Full * ((Half - angle) \div Full)
  ELSE IF angle > Half THEN angle - Full * ((angle + Half) \div Full)
  ELSE angle

\* Mutant: the elevation shown is the one asked for.
RotateSoftAsked(az, el) ==
  LET d == IF Enough(el) THEN VerticalRotation(Drive, el) ELSE Drive IN
  /\ horizontal_position' = IF Enough(az) THEN horizontal_position + az
                            ELSE horizontal_position
  /\ azimuth' = IF Enough(az)
                THEN RecountAngle(horizontal_position + az + azimuth_delta)
                ELSE azimuth
  /\ SetDrive(d)
  /\ elevation' = IF Enough(el) THEN RecountAngle(elevation + el)
                  ELSE elevation
  /\ shifted' = (shifted /\ ~Enough(el))
  /\ vertical_enabled' = (vertical_enabled \/ Enough(el))
  /\ UNCHANGED <<azimuth_delta, elevation_delta>>

\* update_target_position.  Turning an axis switches its own motor on, whatever
\* was asked of the motors before.  The azimuth's motor holds an axis that has
\* no switch and that the model does not place: its enable line is left out.
RotateSoft(az, el) ==
  LET d == IF Enough(el) THEN VerticalRotation(Drive, el) ELSE Drive IN
  /\ horizontal_position' = IF Enough(az) THEN horizontal_position + az
                            ELSE horizontal_position
  /\ azimuth' = IF Enough(az)
                THEN RecountAngle(horizontal_position + az + azimuth_delta)
                ELSE azimuth
  /\ SetDrive(d)
  /\ elevation' = IF Enough(el) THEN RecountAngle(d.position + elevation_delta)
                  ELSE elevation
  /\ shifted' = (shifted /\ ~Enough(el))
  /\ vertical_enabled' = (vertical_enabled \/ Enough(el))
  /\ UNCHANGED <<azimuth_delta, elevation_delta>>

\* Mutant: the azimuth is treated like the elevation.
RotateHardBoth(az, el) ==
  LET d == IF Enough(el) THEN VerticalRotation(Drive, el) ELSE Drive IN
  /\ horizontal_position' = IF Enough(az) THEN horizontal_position + az
                            ELSE horizontal_position
  /\ azimuth' = IF Enough(az) THEN azimuth - az ELSE azimuth
  /\ SetDrive(d)
  /\ elevation' = IF Enough(el)
                  THEN elevation - (d.axis - elevation_axis) ELSE elevation
  /\ shifted' = (shifted \/ Enough(el))
  /\ vertical_enabled' = (vertical_enabled \/ Enough(el))
  /\ UNCHANGED <<azimuth_delta, elevation_delta>>

\* update_target_position_hard: azimuth_delta for one axis, elevation itself
\* for the other.
RotateHard(az, el) ==
  LET d == IF Enough(el) THEN VerticalRotation(Drive, el) ELSE Drive IN
  /\ horizontal_position' = IF Enough(az) THEN horizontal_position + az
                            ELSE horizontal_position
  /\ azimuth_delta' = IF Enough(az) THEN azimuth_delta - az ELSE azimuth_delta
  /\ SetDrive(d)
  /\ elevation' = IF Enough(el)
                  THEN elevation - (d.axis - elevation_axis) ELSE elevation
  /\ shifted' = (shifted \/ Enough(el))
  /\ vertical_enabled' = (vertical_enabled \/ Enough(el))
  /\ UNCHANGED <<azimuth, elevation_delta>>

\* Mutant: the nearer way is taken on one side only.
ShortestWayOneSided(angle) == IF angle > Half THEN angle - Full ELSE angle

\* update_target_position_GCSCS_ANG.
ShortestWay(angle) ==
  IF angle > Half THEN angle - Full
  ELSE IF angle < -Half THEN angle + Full ELSE angle

\* Mutant: the elevation is turned by the angle of the target.
AimAbsolute(t) == RotateSoft(ShortestWay(t[1] - azimuth), t[2])

Aim(t) == RotateSoft(ShortestWay(t[1] - azimuth), t[2] - elevation)

Command ==
  /\ up
  /\ commands < MaxCommands
  /\ commands' = commands + 1
  /\ UNCHANGED <<up, target>>

AutomaticControl(mode) ==
  /\ Command
  /\ auto_control_mode' = mode
  /\ UNCHANGED <<driveVars, pointVars, gps_filter, coord_system>>

SoftManualControl(az, el) ==
  /\ Command
  /\ RotateSoft(az, el)
  /\ UNCHANGED modeVars

HardManualControl(az, el) ==
  /\ Command
  /\ RotateHard(az, el)
  /\ UNCHANGED modeVars

MotorsEnableMode(mode) ==
  /\ Command
  /\ vertical_enabled' = mode
  /\ UNCHANGED <<elevation_axis, vertical_position, horizontal_position,
                 last_vertical_limit, homed, pointVars, modeVars>>

\* Down to the lower switch, then back by what the switch stands for.
Zeroed ==
  LET down == VerticalRotation(Drive, -Full) IN
  IF down.limit = None THEN down ELSE VerticalRotation(down, -down.limit)

SetupElevationZero ==
  /\ Command
  /\ SetDrive(Zeroed)
  /\ elevation' = RecountAngle(Zeroed.position + elevation_delta)
  /\ shifted' = FALSE
  /\ vertical_enabled' = TRUE
  /\ UNCHANGED <<horizontal_position, azimuth, azimuth_delta, elevation_delta,
                 modeVars>>

TargetToNorth ==
  /\ Command
  /\ coord_system
  /\ Aim(North)
  /\ UNCHANGED modeVars

\* The flag goes down first and comes back when all sensors answered in time.
SetupCoordSystem ==
  /\ Command
  /\ coord_system' \in BOOLEAN
  /\ UNCHANGED <<driveVars, pointVars, auto_control_mode, gps_filter>>

SetupGpsFilter(filter) ==
  /\ Command
  /\ gps_filter' = filter
  /\ UNCHANGED <<driveVars, pointVars, auto_control_mode, coord_system>>

\* A fix whose position the filter passes on.  The aiming period holds
\* nothing back: it is added to the wrong side of the comparison.
FixTaken(t) ==
  /\ up
  /\ gps_filter = "none"
  /\ \/ coord_system /\ target' = t
     \/ ~coord_system /\ UNCHANGED target
  /\ \/ /\ coord_system /\ auto_control_mode
        /\ Aim(t)
     \/ /\ ~coord_system \/ ~auto_control_mode
        /\ UNCHANGED <<driveVars, pointVars>>
  /\ UNCHANGED <<up, modeVars, commands>>

\* The velocity filter has nothing to say of its first fix ...
FixSwallowed ==
  /\ up
  /\ gps_filter = "velocity"
  /\ ~coord_system
  /\ gps_filter' = "primed"
  /\ UNCHANGED <<up, driveVars, pointVars, auto_control_mode, coord_system,
                 target, commands>>

\* ... which is no position to reshape, and subtracts two tuples at the next.
\* Nobody catches either exception.
FixKills ==
  /\ up
  /\ gps_filter = "primed" \/ (gps_filter = "velocity" /\ coord_system)
  /\ up' = FALSE
  /\ UNCHANGED <<driveVars, pointVars, modeVars, target, commands>>

\* The process is killed, or its board.
Crash ==
  /\ up
  /\ commands < MaxCommands
  /\ commands' = commands + 1
  /\ up' = FALSE
  /\ UNCHANGED <<driveVars, pointVars, modeVars, target>>

\* systemd starts it again.  The antenna is where it was.
Restart ==
  /\ ~up
  /\ Start
  /\ UNCHANGED <<elevation_axis, commands>>

\* While its motor is off somebody, or the wind, tilts the antenna.
MovedByHand ==
  /\ ~vertical_enabled
  /\ commands < MaxCommands
  /\ commands' = commands + 1
  /\ elevation_axis' \in Bottom .. Top
  /\ homed' = FALSE
  /\ UNCHANGED <<up, vertical_enabled, vertical_position, horizontal_position,
                 last_vertical_limit, pointVars, modeVars, target>>

Operator ==
  \/ \E mode \in BOOLEAN : AutomaticControl(mode) \/ MotorsEnableMode(mode)
  \/ \E az \in Angles, el \in Angles :
       SoftManualControl(az, el) \/ HardManualControl(az, el)
  \/ SetupElevationZero
  \/ TargetToNorth
  \/ SetupCoordSystem
  \/ \E filter \in {"none", "velocity"} : SetupGpsFilter(filter)

GpsFix == FixSwallowed \/ FixKills \/ \E t \in Targets : FixTaken(t)

Next == Operator \/ GpsFix \/ Crash \/ Restart \/ MovedByHand

Spec == Init /\ [][Next]_vars

\* The target sends its position again although it has not moved.
FixAgain == \E t \in Targets : t = target /\ FixTaken(t)

\* The target keeps sending positions and systemd restarts the process.
FairSpec == Spec /\ WF_vars(FixAgain) /\ WF_vars(Restart)

-----------------------------------------------------------------------------
(* Properties.                                                             *)

\* Every variable holds a value of its kind; the antenna stays between its
\* switches, and the shown azimuth within half a turn.
TypeOK ==
  /\ up \in BOOLEAN
  /\ elevation_axis \in Bottom .. Top
  /\ vertical_enabled \in BOOLEAN
  /\ vertical_position \in Int
  /\ horizontal_position \in Int
  /\ last_vertical_limit \in {None, Top, Bottom}
  /\ azimuth \in -Half .. Half
  /\ elevation \in Int
  /\ azimuth_delta \in Int
  /\ elevation_delta = 0
  /\ auto_control_mode \in BOOLEAN
  /\ target \in Directions
  /\ gps_filter \in {"none", "velocity", "primed"}
  /\ coord_system \in BOOLEAN
  /\ commands \in 0 .. MaxCommands
  /\ homed \in BOOLEAN
  /\ shifted \in BOOLEAN

\* Once a switch was met the books know where the antenna is, through any
\* commands and fixes, until it is moved by hand or the process starts anew
\* (drive_control.py:104-115, DM422.py:66-98).
BooksTrueOnceHomed == homed => vertical_position = elevation_axis

\* The shown azimuth is the drive's position in the interface's coordinates,
\* hard rotations included (control_interface.py:228-240).
AzimuthKept ==
  azimuth = RecountAngle(horizontal_position + azimuth_delta)

\* So is the elevation, but a hard rotation of it breaks this until the next
\* rotation that is not hard (control_interface.py:234, 242).
ElevationKept ==
  shifted \/ elevation = RecountAngle(vertical_position + elevation_delta)

\* The distance of two directions on the circle.
Apart(a, b) == Abs(RecountAngle(a - b))

\* Aiming at a target turns the antenna by half a turn at most and leaves it
\* within the least rotation of the target's azimuth, after any history of
\* commands (control_interface.py:210-233).
AimsTheShortestWay ==
  [][\A t \in Targets :
       FixTaken(t) /\ coord_system /\ auto_control_mode =>
         /\ Abs(horizontal_position' - horizontal_position) <= Half
         /\ Apart(azimuth', t[1]) < MinRotation]_vars

\* The command leaves the antenna at zero and the books with it, wherever the
\* antenna was and whatever the books said (control_interface.py:192-196).
ZeroIsFound ==
  [][SetupElevationZero =>
       /\ elevation_axis' = 0
       /\ vertical_position' = 0
       /\ elevation' = 0]_vars

\* The elevation a target's direction asks for, as far as the switches let.
Reachable(phi) ==
  IF phi > Top THEN Top ELSE IF phi < Bottom THEN Bottom ELSE phi

\* The books say so; and so it is, unless they are wrong because no switch was
\* met or because a hard rotation of the elevation was the last.
PointsAt(t) ==
  /\ Apart(azimuth, t[1]) < MinRotation
  /\ \/ Apart(elevation, t[2]) < MinRotation
     \/ elevation = Reachable(t[2])
  /\ homed /\ ~shifted => Abs(elevation_axis - Reachable(t[2])) < MinRotation

Follows(t) == up /\ auto_control_mode /\ coord_system /\ gps_filter = "none"
              /\ target = t

\* A target that stays where it is is pointed at in the end, whatever hard
\* rotations, hands or restarts have done to the books
\* (control_interface.py:130-140, 210-242).
AimSettles ==
  \A t \in Targets : <>[]Follows(t) => <>[]PointsAt(t)

=============================================================================
