SPECIFICATION MCSpec
CONSTANTS
  MaxEvents = 4
  LIMB_BITS = 8
  LIMB_DIGITS = 2
  UDIV1NORM_THRESHOLD = 2
  DIVNORM_LARGE_THRESHOLD = 50
  BF_EXT_EXP_BITS_MAX = 10
  FLOAT_EXP_BITS = 3
  Compile <- js_create_function
  ZIV_EXTRA_BITS = 4
PROPERTIES ProgramsAgree NumeralsExact
\* A program ends, or has used the events it is given.
CHECK_DEADLOCK FALSE
