\* One requirement, analysed while another project's analysis runs in the same API process.
CONSTANTS
  Req = {1}
  Client = {q1}
  MaxRestarts = 0
  ReviewHazards = {"shared"}
SPECIFICATION ReviewSpec
PROPERTIES ReviewsOwnRequirement
CHECK_DEADLOCK FALSE
