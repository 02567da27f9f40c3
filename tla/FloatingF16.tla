---------------------------- MODULE FloatingF16 ----------------------------
(* crates/simd/src/floating_f16.rs: the reductions over f16 slices, one      *)
(* definition per specialised version.  Rounding is not modelled.            *)
EXTENDS LaneKernels

\* Lanes of a scalable vector; the processor reports at least 512 bits.
VL == 32

Unrolled ==
    <<Full(64, <<0, 1, 2, 3, 4, 5, 6, 7>>), Once(32, <<0, 1, 2, 3>>), Once(16, <<4, 5>>),
      Once(8, <<6>>), partial_load(8, <<7>>, "zero")>>

reduce_sum_of_x_v4_avx512fp16 ==
    SumOf("x", {0, 1}, <<Full(64, <<0, 1>>), Once(32, <<0>>), Masked(32, 1)>>)
reduce_sum_of_x_v4 == SumOf("x", {0}, <<Full(16, <<0>>), Masked(16, 0)>>)
reduce_sum_of_x_v3 == SumOf("x", {0}, <<Full(8, <<0>>), partial_load(8, <<0>>, "zero")>>)
reduce_sum_of_x_a2_fp16 == SumOf("x", 0..7, Unrolled)
reduce_sum_of_x_a2 == SumOf("x", {0}, <<Full(4, <<0>>), partial_load(4, <<0>>, "zero")>>)
reduce_sum_of_x ==
    Versions("real", {reduce_sum_of_x_v4_avx512fp16,
                      reduce_sum_of_x_v4,
                      reduce_sum_of_x_v3,
                      reduce_sum_of_x_a2_fp16,
                      reduce_sum_of_x_a2},
             SumOf("x", {0}, Scalar))

reduce_sum_of_abs_x_v4_avx512fp16 ==
    SumOf("abs", {0, 1}, <<Full(64, <<0, 1>>), Full(32, <<0>>), Masked(32, 1)>>)
reduce_sum_of_abs_x_v4 == SumOf("abs", {0}, <<Full(16, <<0>>), Masked(16, 0)>>)
reduce_sum_of_abs_x_v3 == SumOf("abs", {0}, <<Full(8, <<0>>), partial_load(8, <<0>>, "zero")>>)
reduce_sum_of_abs_x_a2_fp16 == SumOf("abs", 0..7, Unrolled)
reduce_sum_of_abs_x_a2 == SumOf("abs", {0}, <<Full(4, <<0>>), partial_load(4, <<0>>, "zero")>>)
reduce_sum_of_abs_x ==
    Versions("real", {reduce_sum_of_abs_x_v4_avx512fp16,
                      reduce_sum_of_abs_x_v4,
                      reduce_sum_of_abs_x_v3,
                      reduce_sum_of_abs_x_a2_fp16,
                      reduce_sum_of_abs_x_a2},
             SumOf("abs", {0}, Scalar))

reduce_sum_of_x2_v4_avx512fp16 ==
    SumOf("x2", {0, 1}, <<Full(64, <<0, 1>>), Once(32, <<0>>), Masked(32, 1)>>)
reduce_sum_of_x2_v4 == SumOf("x2", {0}, <<Full(16, <<0>>), Masked(16, 0)>>)
reduce_sum_of_x2_v3 == SumOf("x2", {0}, <<Full(8, <<0>>), partial_load(8, <<0>>, "zero")>>)
reduce_sum_of_x2_a2_fp16 == SumOf("x2", 0..7, Unrolled)
reduce_sum_of_x2_a2 == SumOf("x2", {0}, <<Full(4, <<0>>), partial_load(4, <<0>>, "zero")>>)
reduce_sum_of_x2 ==
    Versions("real", {reduce_sum_of_x2_v4_avx512fp16,
                      reduce_sum_of_x2_v4,
                      reduce_sum_of_x2_v3,
                      reduce_sum_of_x2_a2_fp16,
                      reduce_sum_of_x2_a2},
             SumOf("x2", {0}, Scalar))

reduce_sum_of_xy_v4_avx512fp16 ==
    SumOf("xy", {0, 1}, <<Full(64, <<0, 1>>), Once(32, <<0>>), Masked(32, 1)>>)
reduce_sum_of_xy_v4 == SumOf("xy", {0}, <<Full(16, <<0>>), Masked(16, 0)>>)
reduce_sum_of_xy_v3 == SumOf("xy", {0}, <<Full(8, <<0>>), partial_load(8, <<0>>, "zero")>>)
fp16_reduce_sum_of_xy_a3_512 ==
    SumOf("xy", {0, 1}, <<Full(2 * VL, <<0, 1>>), Once(VL, <<0>>), Masked(VL, 0)>>)
reduce_sum_of_xy_a3_512 == fp16_reduce_sum_of_xy_a3_512
reduce_sum_of_xy_a2_fp16 == SumOf("xy", 0..7, Unrolled)
reduce_sum_of_xy_a2 == SumOf("xy", {0}, <<Full(4, <<0>>), partial_load(4, <<0>>, "zero")>>)
reduce_sum_of_xy ==
    Versions("real", {reduce_sum_of_xy_v4_avx512fp16,
                      reduce_sum_of_xy_v4,
                      reduce_sum_of_xy_v3,
                      reduce_sum_of_xy_a3_512,
                      reduce_sum_of_xy_a2_fp16,
                      reduce_sum_of_xy_a2},
             SumOf("xy", {0}, Scalar))

reduce_sum_of_d2_v4_avx512fp16 ==
    SumOf("d2", {0, 1}, <<Full(64, <<0, 1>>), Once(32, <<0>>), Masked(32, 1)>>)
reduce_sum_of_d2_v4 == SumOf("d2", {0}, <<Full(16, <<0>>), Masked(16, 0)>>)
reduce_sum_of_d2_v3 == SumOf("d2", {0}, <<Full(8, <<0>>), partial_load(8, <<0>>, "zero")>>)
fp16_reduce_sum_of_d2_a3_512 ==
    SumOf("d2", {0, 1}, <<Full(2 * VL, <<0, 1>>), Once(VL, <<0>>), Masked(VL, 0)>>)
reduce_sum_of_d2_a3_512 == fp16_reduce_sum_of_d2_a3_512
reduce_sum_of_d2_a2_fp16 == SumOf("d2", 0..7, Unrolled)
reduce_sum_of_d2_a2 == SumOf("d2", {0}, <<Full(4, <<0>>), partial_load(4, <<0>>, "zero")>>)
reduce_sum_of_d2 ==
    Versions("real", {reduce_sum_of_d2_v4_avx512fp16,
                      reduce_sum_of_d2_v4,
                      reduce_sum_of_d2_v3,
                      reduce_sum_of_d2_a3_512,
                      reduce_sum_of_d2_a2_fp16,
                      reduce_sum_of_d2_a2},
             SumOf("d2", {0}, Scalar))

\* The start values are integer conversions of the bit patterns 0x7C00 and
\* 0xFC00 of the infinities, not the infinities.
reduce_min_max_of_x_v4_avx512fp16 ==
    MinMaxOf([min |-> 31744, max |-> -1024], <<Full(32, <<0>>), MaskedKeep(32, 0)>>)
reduce_min_max_of_x_v4 == MinMaxOf(Unbounded, <<Full(16, <<0>>), MaskedKeep(16, 0)>>)
reduce_min_max_of_x_v3 == MinMaxOf(Unbounded, <<Full(8, <<0>>), partial_load(8, <<0>>, "nan")>>)
reduce_min_max_of_x_a2_fp16 ==
    MinMaxOf(Unbounded, <<Full(8, <<0>>), partial_load(8, <<0>>, "nan")>>)
reduce_min_max_of_x_a2 == MinMaxOf(Unbounded, <<Full(4, <<0>>), partial_load(4, <<0>>, "nan")>>)
reduce_min_max_of_x ==
    Versions("real", {reduce_min_max_of_x_v4_avx512fp16, reduce_min_max_of_x_v4,
                      reduce_min_max_of_x_v3, reduce_min_max_of_x_a2_fp16,
                      reduce_min_max_of_x_a2},
             MinMaxOf(Unbounded, Scalar))

Kernels == {reduce_sum_of_x, reduce_sum_of_abs_x, reduce_sum_of_x2, reduce_min_max_of_x,
            reduce_sum_of_xy, reduce_sum_of_d2}
=============================================================================
