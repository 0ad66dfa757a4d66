SPECIFICATION MCSpec
CONSTANTS
  LIMB_BITS = 2
  LIMB_DIGITS = 1
  UDIV1NORM_THRESHOLD = 2
  DIVNORM_LARGE_THRESHOLD = 3
  BF_EXT_EXP_BITS_MAX = 10
  FLOAT_EXP_BITS = 3
  ZIV_EXTRA_BITS = 4
  UINT32_MAX = 2147483647
  BLOCK_LEN = 6
  RUN_LEN_MAX = 3
  COMPOSE_OFFSETS = 2
  Decomp <- MCDecomp
  Class <- MCClass
PROPERTIES ArithmeticExact UnicodeExact
