\* Programs that ask for more than is left in the page.
CONSTANTS
  Width  = 4
  Counts = {0, 1, 2, 3, 4, 5}
SPECIFICATION Spec
INVARIANT BlocksLieInPage
